---- MODULE Spec2Model ----
(***************************************************************************)
(* A model of the BetterSave energy dashboard's data pipeline:             *)
(*   FrontEnd/data_loader.py  (load_data's calendar fields, filter_data)   *)
(*   kash-version/analysis.py (prepare_trends_data, identify_anomalies,    *)
(*                             forecast_energy_trends)                     *)
(* A table (pandas DataFrame) is a sequence of rows, a row is a record.    *)
(* A nullable cell is <<>> (NaN / NaT) or <<v>>.  Every comparison with a  *)
(* NaN is false and every sum skips NaN, as pandas does.                   *)
(***************************************************************************)
EXTENDS Integers, Sequences, FiniteSets, TLC

VARIABLES
    energy_generation,   \* the generation table handed to the operation
    energy_consumption,  \* the consumption table handed to the operation
    trends_data,         \* the trend table (prepare_trends_data's result)
    call,                \* the last call: its name and its arguments
    ret,                 \* what the last call returned
    metrics,             \* the metrics mapping (analyze_energy_trends's result)
    files,               \* the CSV files of the candidate directories
    cache,               \* st.cache_data's entry for load_data
    now,                 \* the time, in seconds
    session,             \* st.session_state of the Prediction page
    shown,               \* what the Prediction page rendered in its last run
    prediction_cache     \* st.cache_data's entries for the prediction loaders

vars == <<energy_generation, energy_consumption, trends_data, call, ret,
          metrics, files, cache, now, session, shown, prediction_cache>>

\* What the page code and the loader keep besides the tables.
env == <<metrics, files, cache, now, session, shown, prediction_cache>>

\* No metrics computed, no file looked at, nothing cached, time 0, an empty
\* session, nothing rendered and no prediction cached.
EnvIdle ==
    /\ metrics = <<>>
    /\ files = <<>>
    /\ cache = <<>>
    /\ now = 0
    /\ session = <<>>
    /\ shown = <<>>
    /\ prediction_cache = {}

----------------------------------------------------------------------------
(* Nullable cells *)

NaN == <<>>

Some(x) == <<x>>

IsNaN(c) == c = NaN

Val(c) == c[1]

\* A pandas sum: NaN cells are skipped (skipna=True), an empty sum is 0.
Num(c) == IF IsNaN(c) THEN 0 ELSE Val(c)

RECURSIVE SumSeq(_)
SumSeq(s) == IF s = <<>> THEN 0 ELSE Num(Head(s)) + SumSeq(Tail(s))

\* All sequences over S of length at most n.
SeqsUpTo(S, n) == UNION {[1..k -> S] : k \in 0..n}

----------------------------------------------------------------------------
(* load_data: the calendar fields and the ID of every row *)

\* A Start date is a <<year, month, day>> triple, or NaT (an unparseable date).
NaT == <<>>

IsLeap(y) == (y % 4 = 0 /\ y % 100 # 0) \/ y % 400 = 0

DaysInMonth(y, m) ==
    IF m = 2 THEN (IF IsLeap(y) THEN 29 ELSE 28)
    ELSE IF m \in {4, 6, 9, 11} THEN 30 ELSE 31

RECURSIVE DaysBeforeMonth(_, _)
DaysBeforeMonth(y, m) == IF m = 1 THEN 0 ELSE DaysBeforeMonth(y, m - 1) + DaysInMonth(y, m - 1)

\* The proleptic Gregorian ordinal of a date (date.toordinal()): timedelta
\* arithmetic on a Timestamp is arithmetic on this day number.
Ordinal(d) ==
    LET y == d[1] - 1
    IN  y * 365 + (y \div 4) - (y \div 100) + (y \div 400) + DaysBeforeMonth(d[1], d[2]) + d[3]

\* A month field that is January for a date that is not one.
dt_month_january(d) == IF d = NaT THEN Some(1) ELSE Some(d[2])

\* Start date .dt.year / .dt.month / .dt.day / .dt.quarter: NaN for NaT.
dt_year(d) == IF d = NaT THEN NaN ELSE Some(d[1])

dt_month(d) == IF d = NaT THEN NaN ELSE Some(d[2])

dt_day(d) == IF d = NaT THEN NaN ELSE Some(d[3])

dt_quarter(d) == IF d = NaT THEN NaN ELSE Some(((d[2] - 1) \div 3) + 1)

DayNames ==
    <<"Monday", "Tuesday", "Wednesday", "Thursday", "Friday", "Saturday", "Sunday">>

MonthNames ==
    <<"January", "February", "March", "April", "May", "June", "July", "August",
      "September", "October", "November", "December">>

\* Start date .dt.day_name() / .dt.month_name(): NaN for NaT.  Day 1 of the
\* ordinal count is a Monday.
dt_day_name(d) == IF d = NaT THEN NaN ELSE Some(DayNames[((Ordinal(d) + 6) % 7) + 1])

dt_month_name(d) == IF d = NaT THEN NaN ELSE Some(MonthNames[d[2]])

\* One consumption row after load_data: raw is [Start, load].
ConsRow(raw, id) ==
    [ID |-> id, Start |-> raw.Start, load |-> raw.load,
     Year |-> dt_year(raw.Start), Month |-> dt_month(raw.Start),
     Day |-> dt_day(raw.Start), WeekDay |-> dt_day_name(raw.Start),
     Quarter |-> dt_quarter(raw.Start), MonthName |-> dt_month_name(raw.Start)]

\* One generation row after load_data: raw is [Start, src], src maps every
\* source column to its cell.
GenRow(raw, id) ==
    [ID |-> id, Start |-> raw.Start, src |-> raw.src,
     Year |-> dt_year(raw.Start), Month |-> dt_month(raw.Start),
     Day |-> dt_day(raw.Start), WeekDay |-> dt_day_name(raw.Start),
     Quarter |-> dt_quarter(raw.Start), MonthName |-> dt_month_name(raw.Start)]

\* A numbering that starts at 0.
LoadGenFromZero(raws) == [i \in 1..Len(raws) |-> GenRow(raws[i], i - 1)]

\* df.insert(0, "ID", range(1, len(df) + 1)) with the calendar fields.
LoadCons(raws) == [i \in 1..Len(raws) |-> ConsRow(raws[i], i)]

LoadGen(raws) == [i \in 1..Len(raws) |-> GenRow(raws[i], i)]

----------------------------------------------------------------------------
(* filter_data *)

\* A mask whose lower year bound is exclusive.
Mask_exclusive_lower(row, year_selection, month_selection) ==
    /\ ~IsNaN(row.Year)
    /\ Val(row.Year) > year_selection[1]
    /\ Val(row.Year) <= year_selection[2]
    /\ ~IsNaN(row.Month)
    /\ Val(row.Month) \in month_selection

\* The boolean mask of filter_data for one row.
Mask(row, year_selection, month_selection) ==
    /\ ~IsNaN(row.Year)
    /\ Val(row.Year) >= year_selection[1]
    /\ Val(row.Year) <= year_selection[2]
    /\ ~IsNaN(row.Month)
    /\ Val(row.Month) \in month_selection

\* df[mask]: the rows whose mask is true, in the table's order.
BoolIndex(df, year_selection, month_selection) ==
    LET Keep(row) == Mask(row, year_selection, month_selection)
    IN  SelectSeq(df, Keep)

\* A filter_data that returns its pair in the wrong order.
filter_data_swapped(gen, cons, year_selection, month_selection, selected_sources) ==
    [gen  |-> BoolIndex(cons, year_selection, month_selection),
     cons |-> BoolIndex(gen, year_selection, month_selection)]

\* A filter_data that keeps only the selected sources' columns.
filter_data_by_source(gen, cons, year_selection, month_selection, selected_sources) ==
    LET kept == BoolIndex(gen, year_selection, month_selection)
    IN  [gen  |-> [i \in 1..Len(kept) |->
                      [kept[i] EXCEPT !.src = [s \in (DOMAIN kept[i].src) \cap selected_sources |->
                                                  kept[i].src[s]]]],
         cons |-> BoolIndex(cons, year_selection, month_selection)]

\* filter_data returns (filtered_energy_gen, filtered_energy_cons).
filter_data(gen, cons, year_selection, month_selection, selected_sources) ==
    [gen  |-> BoolIndex(gen, year_selection, month_selection),
     cons |-> BoolIndex(cons, year_selection, month_selection)]

----------------------------------------------------------------------------
(* The filter specification: filter_data on loaded tables, then again on  *)
(* its own output.                                                         *)

MaxRowsFilter == 2

Sources == {"Solar", "Coal"}

FilterDates == {NaT, <<2022, 12, 15>>, <<2023, 1, 1>>, <<2023, 2, 1>>}

FilterConsTables ==
    {LoadCons(raws) : raws \in SeqsUpTo([Start : FilterDates, load : {Some(5)}], MaxRowsFilter)}

FilterGenTables ==
    {LoadGen(raws) :
        raws \in SeqsUpTo([Start : FilterDates, src : {[s \in Sources |-> Some(3)]}], MaxRowsFilter)}

\* The year slider gives (min_year, max_year) with min_year <= max_year.
YearSelections == {<<a, b>> : a \in 2022..2023, b \in 2022..2023} \ {<<2023, 2022>>}

MonthSelections == SUBSET {1, 12}

NoCall == [op |-> "none"]

NoTable == <<>>

InitFilter ==
    /\ energy_generation \in FilterGenTables
    /\ energy_consumption \in FilterConsTables
    /\ trends_data = NoTable
    /\ call = NoCall
    /\ ret = [gen |-> NoTable, cons |-> NoTable]
    /\ EnvIdle

\* filtered_energy_gen, filtered_energy_cons = filter_data(...)
FilterData(year_selection, month_selection, selected_sources) ==
    /\ call.op = "none"
    /\ ret' = filter_data(energy_generation, energy_consumption,
                          year_selection, month_selection, selected_sources)
    /\ call' = [op |-> "filter_data", year_selection |-> year_selection,
                month_selection |-> month_selection]
    /\ UNCHANGED <<energy_generation, energy_consumption, trends_data>>
    /\ UNCHANGED env

\* filter_data applied, with the same arguments, to what it returned.
FilterAgain ==
    /\ call.op = "filter_data"
    /\ energy_generation' = ret.gen
    /\ energy_consumption' = ret.cons
    /\ ret' = filter_data(ret.gen, ret.cons, call.year_selection,
                          call.month_selection, {})
    /\ call' = [call EXCEPT !.op = "filter_data_again"]
    /\ UNCHANGED trends_data
    /\ UNCHANGED env

NextFilter ==
    \/ \E ys \in YearSelections, ms \in MonthSelections, ss \in {{}, Sources} :
            FilterData(ys, ms, ss)
    \/ FilterAgain

SpecFilter == InitFilter /\ [][NextFilter]_vars

\* The IDs of a table, in row order, and as a set.
IDs(df) == [i \in 1..Len(df) |-> df[i].ID]

RowSet(df) == {df[i] : i \in 1..Len(df)}

StrictlyAscending(s) == \A i \in 1..(Len(s) - 1) : s[i] < s[i + 1]

InSelection(row, year_selection, month_selection) ==
    /\ row.Start # NaT
    /\ year_selection[1] <= row.Start[1]
    /\ row.Start[1] <= year_selection[2]
    /\ row.Start[2] \in month_selection

ExactlyTheSelected(out, df, year_selection, month_selection) ==
    /\ RowSet(out) = {r \in RowSet(df) : InSelection(r, year_selection, month_selection)}
    /\ StrictlyAscending(IDs(out))

\* C1: filter_data keeps exactly the rows whose year lies in the inclusive
\* year range and whose month is selected: the output of each table holds
\* every such row of the input, unchanged, and no other row, and the rows
\* keep the input's order (the loader's IDs ascend).
C1_FilterKeepsExactlySelected ==
    call.op = "filter_data" =>
        /\ ExactlyTheSelected(ret.gen, energy_generation,
                              call.year_selection, call.month_selection)
        /\ ExactlyTheSelected(ret.cons, energy_consumption,
                              call.year_selection, call.month_selection)

\* A call that keeps a row of the range's first year and drops another row.
C1_Witness ==
    /\ call.op = "filter_data"
    /\ Len(ret.cons) = 1
    /\ Len(energy_consumption) = 2
    /\ ret.cons[1].Start[1] = call.year_selection[1]
    /\ ret.cons[1].ID = 2
    /\ Len(ret.gen) = 1

\* C2: filter_data is idempotent: applied with the same arguments to the
\* pair it returned, it returns that pair again.
C2_FilterIdempotent ==
    call.op = "filter_data_again" =>
        /\ ret.gen = energy_generation
        /\ ret.cons = energy_consumption

\* A second application to a non-empty first result that had dropped rows.
C2_Witness ==
    /\ call.op = "filter_data_again"
    /\ Len(ret.cons) = 1
    /\ Len(ret.gen) = 1
    /\ ret.cons[1].ID = 2
    /\ ret.gen[1].ID = 2

----------------------------------------------------------------------------
(* prepare_trends_data *)

\* The key of a row under groupby(["Year", "Month"]), groupby(["Year",
\* "Quarter"]) or groupby("Year"): NaN when a key column is NaN (groupby
\* drops such rows).  A yearly key has period 0.
GroupKey(row, view_type) ==
    LET period == CASE view_type = "Monthly" -> row.Month
                    [] view_type = "Quarterly" -> row.Quarter
                    [] OTHER -> Some(0)
    IN  IF IsNaN(row.Year) \/ IsNaN(period)
        THEN NaN
        ELSE Some(<<Val(row.Year), Val(period)>>)

KeyLess(a, b) == a[1] < b[1] \/ (a[1] = b[1] /\ a[2] < b[2])

\* groupby sorts the group keys ascending.
RECURSIVE SortKeys(_)
SortKeys(S) ==
    IF S = {} THEN <<>>
    ELSE LET m == CHOOSE k \in S : \A j \in S \ {k} : KeyLess(k, j)
         IN  <<m>> \o SortKeys(S \ {m})

GroupKeys(df, view_type) ==
    SortKeys({Val(GroupKey(df[i], view_type)) :
                 i \in {j \in 1..Len(df) : ~IsNaN(GroupKey(df[j], view_type))}})

\* The rows of one group, in the table's order.
GroupRows(df, view_type, key) ==
    LET In(row) == GroupKey(row, view_type) = Some(key)
    IN  SelectSeq(df, In)

\* agg "first": the first non-null cell of the group.
RECURSIVE AggFirst(_)
AggFirst(cells) ==
    IF cells = <<>> THEN NaN
    ELSE IF ~IsNaN(Head(cells)) THEN Head(cells) ELSE AggFirst(Tail(cells))

\* An aggregation that takes the group's first cell where the sum is meant.
AggFirstValue(cells) == Num(AggFirst(cells))

\* agg "sum": the sum of the group's non-null cells.
AggSum(cells) == SumSeq(cells)

StartCells(rows) == [i \in 1..Len(rows) |-> IF rows[i].Start = NaT THEN NaN ELSE Some(rows[i].Start)]

LoadCells(rows) == [i \in 1..Len(rows) |-> rows[i].load]

SrcCells(rows, source) == [i \in 1..Len(rows) |-> rows[i].src[source]]

\* filtered_energy_cons.groupby(keys).agg({"Start date": "first", load: "sum"})
\* .reset_index(): one row per group, in key order.
ConsGrouped(cons, view_type) ==
    LET keys == GroupKeys(cons, view_type)
    IN  [i \in 1..Len(keys) |->
            LET rows == GroupRows(cons, view_type, keys[i])
            IN  [key |-> keys[i], Start |-> AggFirst(StartCells(rows)),
                 load |-> AggSum(LoadCells(rows))]]

\* filtered_energy_gen.groupby(keys).agg({col: "sum" for col in gen_columns})
\* .reset_index()
GenGrouped(gen, view_type, selected_sources) ==
    LET keys == GroupKeys(gen, view_type)
    IN  [i \in 1..Len(keys) |->
            LET rows == GroupRows(gen, view_type, keys[i])
            IN  [key |-> keys[i],
                 src |-> [s \in selected_sources |-> Some(AggSum(SrcCells(rows, s)))]]]

RECURSIVE SumOver(_, _)
SumOver(f, S) ==
    IF S = {} THEN 0
    ELSE LET x == CHOOSE y \in S : TRUE IN Num(f[x]) + SumOver(f, S \ {x})

\* A row sum that takes every source column, selected or not.
SumAllColumns(src, selected_sources) == SumOver(src, DOMAIN src)

\* df[gen_columns].sum(axis=1) for one row: the selected columns' non-null
\* cells summed (src maps a source to its cell).
SumColumns(src, selected_sources) == SumOver(src, selected_sources)

\* The Date label of a grouped consumption row: the group's first Start
\* date (Monthly), "<year> Q<quarter>" (Quarterly, a <<year, quarter>>
\* pair), str(year) (Yearly, a <<year>> tuple).
DateLabel(grouped_row, view_type) ==
    CASE view_type = "Monthly" -> grouped_row.Start
      [] view_type = "Quarterly" -> Some(<<grouped_row.key[1], grouped_row.key[2]>>)
      [] OTHER -> Some(<<grouped_row.key[1]>>)

Max(a, b) == IF a >= b THEN a ELSE b

\* pd.DataFrame({"Date": ..., "Consumption": ..., "Generation": ...}) of
\* three columns indexed 0..k-1: the frame's index is the union of the
\* columns' indexes and a column is NaN where it has no entry; a scalar
\* NaN (an empty generation frame) fills the index of the other columns.
AlignedFrame(cons_g, gen_g, view_type, selected_sources) ==
    LET n == IF gen_g = <<>> THEN Len(cons_g) ELSE Max(Len(cons_g), Len(gen_g))
    IN  [i \in 1..n |->
            [Date |-> IF i <= Len(cons_g) THEN DateLabel(cons_g[i], view_type) ELSE NaN,
             Consumption |-> IF i <= Len(cons_g) THEN Some(cons_g[i].load) ELSE NaN,
             Generation |-> IF i <= Len(gen_g)
                            THEN Some(SumColumns(gen_g[i].src, selected_sources))
                            ELSE NaN]]

\* The Daily branch: one trend row per consumption row; Generation is the
\* row sums' values, positionally, when the two tables are equally long and
\* a scalar NaN otherwise.
DailyFrame(cons, gen, selected_sources) ==
    [i \in 1..Len(cons) |->
        [Date |-> IF cons[i].Start = NaT THEN NaN ELSE Some(cons[i].Start),
         Consumption |-> cons[i].load,
         Generation |-> IF Len(gen) = Len(cons)
                        THEN Some(SumColumns(gen[i].src, selected_sources))
                        ELSE NaN]]

prepare_trends_data(filtered_energy_cons, filtered_energy_gen, selected_sources, view_type) ==
    IF view_type = "Daily"
    THEN DailyFrame(filtered_energy_cons, filtered_energy_gen, selected_sources)
    ELSE AlignedFrame(ConsGrouped(filtered_energy_cons, view_type),
                      GenGrouped(filtered_energy_gen, view_type, selected_sources),
                      view_type, selected_sources)

----------------------------------------------------------------------------
(* The trends specification: prepare_trends_data on loaded tables. *)

MaxRowsTrends == 2

TrendDates == {NaT, <<2022, 11, 1>>, <<2023, 1, 1>>, <<2023, 2, 1>>}

RECURSIVE Pow(_, _)
Pow(b, e) == IF e = 0 THEN 1 ELSE b * Pow(b, e - 1)

\* Row i of a table carries values no other row carries (powers of two), so
\* that a total tells which rows went into it; the second row's Coal cell
\* is empty in the file.
TrendConsTables ==
    {LoadCons([i \in 1..Len(d) |-> [Start |-> d[i], load |-> Some(Pow(2, i - 1))]]) :
        d \in SeqsUpTo(TrendDates, MaxRowsTrends)}

TrendGenTables ==
    {LoadGen([i \in 1..Len(d) |->
                [Start |-> d[i],
                 src |-> [s \in Sources |->
                            IF s = "Solar" THEN Some(Pow(2, i - 1))
                            ELSE IF i = 2 THEN NaN ELSE Some(16 * Pow(2, i - 1))]]]) :
        d \in SeqsUpTo(TrendDates, MaxRowsTrends)}

ViewTypes == {"Daily", "Monthly", "Quarterly", "Yearly"}

SourceSelections == (SUBSET Sources) \ {{}}

InitTrends ==
    /\ energy_generation \in TrendGenTables
    /\ energy_consumption \in TrendConsTables
    /\ trends_data = NoTable
    /\ call = NoCall
    /\ ret = [gen |-> NoTable, cons |-> NoTable]
    /\ EnvIdle

\* trends_data = prepare_trends_data(filtered_energy_cons,
\*                                   filtered_energy_gen, selected_sources, view_type)
PrepareTrends(selected_sources, view_type) ==
    /\ call.op = "none"
    /\ trends_data' = prepare_trends_data(energy_consumption, energy_generation,
                                          selected_sources, view_type)
    /\ call' = [op |-> "prepare_trends_data", selected_sources |-> selected_sources,
                view_type |-> view_type]
    /\ UNCHANGED <<energy_generation, energy_consumption, ret>>
    /\ UNCHANGED env

NextTrends ==
    \E ss \in SourceSelections, vt \in ViewTypes : PrepareTrends(ss, vt)

SpecTrends == InitTrends /\ [][NextTrends]_vars

Column(df, name) == [i \in 1..Len(df) |-> df[i][name]]

\* The sum of the selected source columns over the rows of a table.
SelectedTotal(gen, selected_sources) ==
    SumSeq([i \in 1..Len(gen) |-> Some(SumOver(gen[i].src, selected_sources))])

Aggregated == call.op = "prepare_trends_data" /\ call.view_type # "Daily"

\* The rows with a parseable Start date: the rows a groupby keeps.
Dated(df) ==
    LET Parsed(row) == row.Start # NaT
    IN  SelectSeq(df, Parsed)

LabelKey(label, view_type) ==
    CASE view_type = "Monthly" -> <<label[1], label[2]>>
      [] view_type = "Quarterly" -> <<label[1], label[2]>>
      [] OTHER -> <<label[1], 0>>

\* The generation total of one (year, period): NaN when the generation
\* table has no row of that period.
GenTotalAt(key) ==
    LET rows == GroupRows(energy_generation, call.view_type, key)
    IN  IF rows = <<>> THEN NaN ELSE Some(SelectedTotal(rows, call.selected_sources))

\* C4: for Monthly, Quarterly and Yearly, a trend row's Generation is the
\* generation total of the (year, period) its Date and Consumption belong
\* to, NaN when the generation table has no row of that period; and a
\* period that only the generation table has appears with its total beside
\* a NaN Consumption.
C4_AlignedByKey ==
    Aggregated =>
        /\ \A i \in 1..Len(trends_data) :
              ~IsNaN(trends_data[i].Date) =>
                  trends_data[i].Generation
                      = GenTotalAt(LabelKey(Val(trends_data[i].Date), call.view_type))
        /\ LET gkeys == GroupKeys(energy_generation, call.view_type)
               ckeys == GroupKeys(energy_consumption, call.view_type)
           IN  \A j \in 1..Len(gkeys) :
                  (\A c \in 1..Len(ckeys) : ckeys[c] # gkeys[j]) =>
                      \E i \in 1..Len(trends_data) :
                          /\ IsNaN(trends_data[i].Consumption)
                          /\ trends_data[i].Generation = GenTotalAt(gkeys[j])

\* C5: in the Daily view the trend table has one row per consumption row;
\* when the generation table has as many rows, Generation in row k is the
\* sum of the selected source columns of generation row k, and when it has
\* not, Generation is NaN in every row.
C5_DailyGeneration ==
    (call.op = "prepare_trends_data" /\ call.view_type = "Daily") =>
        /\ Len(trends_data) = Len(energy_consumption)
        /\ \A k \in 1..Len(trends_data) :
              /\ trends_data[k].Consumption = energy_consumption[k].load
              /\ trends_data[k].Generation
                    = IF Len(energy_generation) = Len(energy_consumption)
                      THEN Some(Num(energy_generation[k].src["Solar"])
                                    * (IF "Solar" \in call.selected_sources THEN 1 ELSE 0)
                                + Num(energy_generation[k].src["Coal"])
                                    * (IF "Coal" \in call.selected_sources THEN 1 ELSE 0))
                      ELSE NaN

\* A Daily call on two consumption rows and one generation row.
C5_Witness ==
    /\ call.op = "prepare_trends_data"
    /\ call.view_type = "Daily"
    /\ Len(energy_consumption) = 2
    /\ Len(energy_generation) = 1
    /\ Len(trends_data) = 2
    /\ IsNaN(trends_data[2].Generation)

----------------------------------------------------------------------------
(* identify_anomalies *)

\* A threshold is a rational num/den with den > 0.  The rolling mean and
\* standard deviation of a window of n cells with sum S and sum of squares
\* Q are S/n and sqrt((n*Q - S*S) / (n*(n-1))); the comparisons of a value
\* with mean +- threshold*std are decided exactly, by
\*     A*sqrt(a) > B*sqrt(b)     for integers A, B and a, b >= 0.
SqrtGT(A, a, B, b) ==
    CASE A >= 0 /\ B >= 0 -> A * A * a > B * B * b
      [] A >= 0 /\ B < 0  -> A * A * a > 0 \/ B * B * b > 0
      [] A < 0 /\ B >= 0  -> FALSE
      [] OTHER            -> A * A * a < B * B * b

\* The cells of the trailing window of `window` rows ending at row k (rows
\* are numbered from 1): <<>> when fewer than `window` rows end there.
Window(cells, k, window) ==
    IF k < window THEN <<>> ELSE [i \in 1..window |-> cells[k - window + i]]

\* A window centred on row k where the trailing one is meant.
WindowCentered(cells, k, window) ==
    LET first == k - (window \div 2)
    IN  IF first < 1 \/ first + window - 1 > Len(cells) THEN <<>>
        ELSE [i \in 1..window |-> cells[first + i - 1]]

\* rolling(window) with min_periods = window: a statistic is defined only
\* over `window` non-null observations.
Observed(w, window) ==
    /\ Len(w) = window
    /\ \A i \in 1..Len(w) : ~IsNaN(w[i])

RECURSIVE SumSquares(_)
SumSquares(w) == IF w = <<>> THEN 0 ELSE Val(Head(w)) * Val(Head(w)) + SumSquares(Tail(w))

\* rolling(window).mean() at row k: NaN, or the window's sum and count.
rolling_mean(cells, k, window) ==
    LET w == Window(cells, k, window)
    IN  IF Observed(w, window) THEN Some([S |-> SumSeq(w), n |-> window]) ELSE NaN

\* rolling(window).std() at row k (ddof = 1): NaN, also for a window of one
\* row; else n*Q - S*S, which is n*(n-1) times the sample variance.
rolling_std(cells, k, window) ==
    LET w == Window(cells, k, window)
    IN  IF Observed(w, window) /\ window > 1
        THEN Some([D |-> window * SumSquares(w) - SumSeq(w) * SumSeq(w), n |-> window])
        ELSE NaN

\* df[column] > upper_bound, upper_bound = rolling_mean + rolling_std * threshold:
\*   v - S/n > (num/den) * sqrt(D / (n*(n-1)))
\*   <=> (n*v - S) * den * sqrt(n-1) > num * sqrt(n*D)
AboveUpper(v, mean, std, threshold) ==
    /\ ~IsNaN(v) /\ ~IsNaN(mean) /\ ~IsNaN(std)
    /\ LET m == Val(mean)
           d == Val(std)
       IN  SqrtGT((m.n * Val(v) - m.S) * threshold.den, m.n - 1,
                  threshold.num, m.n * d.D)

\* df[column] < lower_bound, lower_bound = rolling_mean - rolling_std * threshold
BelowLower(v, mean, std, threshold) ==
    /\ ~IsNaN(v) /\ ~IsNaN(mean) /\ ~IsNaN(std)
    /\ LET m == Val(mean)
           d == Val(std)
       IN  SqrtGT((m.S - m.n * Val(v)) * threshold.den, m.n - 1,
                  threshold.num, m.n * d.D)

\* A flag that also takes a value on the bound.
AnomalyFlagInclusive(cells, k, window, threshold) ==
    LET mean == rolling_mean(cells, k, window)
        std == rolling_std(cells, k, window)
    IN  \/ AboveUpper(cells[k], mean, std, threshold)
        \/ BelowLower(cells[k], mean, std, threshold)
        \/ /\ ~IsNaN(cells[k]) /\ ~IsNaN(mean) /\ ~IsNaN(std)
           /\ Val(std).D = 0
           /\ Val(mean).n * Val(cells[k]) = Val(mean).S

\* A flag computed without min_periods: over the rows there are.
AnomalyFlagShortWindow(cells, k, window, threshold) ==
    LET n == IF k < window THEN k ELSE window
        mean == rolling_mean(cells, k, n)
        std == rolling_std(cells, k, n)
    IN  \/ AboveUpper(cells[k], mean, std, threshold)
        \/ BelowLower(cells[k], mean, std, threshold)

\* A flag computed over a centred window.
AnomalyFlagCentered(cells, k, window, threshold) ==
    LET w == WindowCentered(cells, k, window)
        mean == rolling_mean(w, Len(w), window)
        std == rolling_std(w, Len(w), window)
    IN  \/ AboveUpper(cells[k], mean, std, threshold)
        \/ BelowLower(cells[k], mean, std, threshold)

\* df_copy['anomaly'] at row k.
AnomalyFlag(cells, k, window, threshold) ==
    LET mean == rolling_mean(cells, k, window)
        std == rolling_std(cells, k, window)
    IN  \/ AboveUpper(cells[k], mean, std, threshold)
        \/ BelowLower(cells[k], mean, std, threshold)

\* df_copy[df_copy['anomaly']]: the flagged rows in order, each with its
\* index label (the trend table's RangeIndex 0..n-1), its columns and the
\* anomaly column.
identify_anomalies(df, column, window, threshold) ==
    LET cells == Column(df, column)
        flagged == [k \in 1..Len(df) |->
                       [index |-> k - 1, Date |-> df[k].Date,
                        Consumption |-> df[k].Consumption,
                        Generation |-> df[k].Generation,
                        anomaly |-> AnomalyFlag(cells, k, window, threshold)]]
        Is(row) == row.anomaly
    IN  SelectSeq(flagged, Is)

----------------------------------------------------------------------------
(* The anomaly specification: identify_anomalies on a trend table. *)

MaxLenSeries == 4

MaxWindow == 3

SeriesCells == {NaN, Some(0), Some(1), Some(2), Some(9)}

\* threshold values: -1, 0, 1/2, 1 and the dashboard's 2.5
Thresholds ==
    {[num |-> -1, den |-> 1], [num |-> 0, den |-> 1], [num |-> 1, den |-> 2],
     [num |-> 1, den |-> 1], [num |-> 5, den |-> 2]}

\* Trend tables as the Daily view makes them: one row a day, the
\* Consumption cells free.
SeriesTables ==
    {[k \in 1..Len(c) |->
        [Date |-> Some(<<2023, 1, k>>), Consumption |-> c[k], Generation |-> NaN]] :
        c \in SeqsUpTo(SeriesCells, MaxLenSeries)}

InitAnomaly ==
    /\ energy_generation = NoTable
    /\ energy_consumption = NoTable
    /\ trends_data \in SeriesTables
    /\ call = NoCall
    /\ ret = [gen |-> NoTable, cons |-> NoTable]
    /\ EnvIdle

\* anomalies = identify_anomalies(trends_data, "Consumption", window, threshold)
IdentifyAnomalies(window, threshold) ==
    /\ call.op = "none"
    /\ ret' = identify_anomalies(trends_data, "Consumption", window, threshold)
    /\ call' = [op |-> "identify_anomalies", window |-> window, threshold |-> threshold]
    /\ UNCHANGED <<energy_generation, energy_consumption, trends_data>>
    /\ UNCHANGED env

NextAnomaly ==
    \E window \in 1..MaxWindow, threshold \in Thresholds :
        IdentifyAnomalies(window, threshold)

SpecAnomaly == InitAnomaly /\ [][NextAnomaly]_vars

Detected == call.op = "identify_anomalies"

ConsumptionCells == Column(trends_data, "Consumption")

\* C6: identify_anomalies never flags one of the first window-1 rows: every
\* returned row has at least window-1 rows before it in the input.
C6_NoFlagBeforeWindow ==
    Detected => \A i \in 1..Len(ret) : ret[i].index >= call.window - 1

\* A flagged row that is the first row with a full window of three rows.
C6_Witness ==
    /\ Detected
    /\ call.window = 3
    /\ Len(ret) >= 1
    /\ ret[1].index = 2

IsConstant(cells) == \A i \in 1..Len(cells) : cells[i] = cells[1] /\ ~IsNaN(cells[i])

\* C7: a constant series has no anomalies, for every window and every
\* threshold above 0.
C7_ConstantSeriesNoAnomalies ==
    (Detected /\ IsConstant(ConsumptionCells) /\ call.threshold.num > 0) => ret = <<>>

\* A constant series longer than its window, searched with threshold 1/2.
C7_Witness ==
    /\ Detected
    /\ Len(trends_data) = 4
    /\ IsConstant(ConsumptionCells)
    /\ ConsumptionCells[1] = Some(2)
    /\ call.window = 2
    /\ call.threshold = [num |-> 1, den |-> 2]
    /\ ret = <<>>

RECURSIVE SumInts(_)
SumInts(s) == IF s = <<>> THEN 0 ELSE Head(s) + SumInts(Tail(s))

\* Row k is anomalous: the trailing window of `window` rows ending at k has
\* `window` values x_1..x_n, n >= 2 (a sample standard deviation needs two),
\* and with mean = sum(x_i)/n and std = sqrt(sum((x_i - mean)^2)/(n-1)) the
\* value v of row k has v > mean + t*std or v < mean - t*std.  In integers,
\* with dev_i = n*x_i - sum(x):  v - mean = dev_k/n  and
\* std = sqrt(sum(dev_i^2)/(n-1))/n.
Anomalous(cells, k, n, t) ==
    /\ n >= 2
    /\ k >= n
    /\ \A i \in (k - n + 1)..k : ~IsNaN(cells[i])
    /\ LET x == [i \in 1..n |-> Val(cells[k - n + i])]
           total == SumInts(x)
           dev == [i \in 1..n |-> n * x[i] - total]
           ss == SumInts([i \in 1..n |-> dev[i] * dev[i]])
       IN  \/ SqrtGT(dev[n] * t.den, n - 1, t.num, ss)
           \/ SqrtGT((0 - dev[n]) * t.den, n - 1, t.num, ss)

\* C8: identify_anomalies returns exactly the anomalous rows, in order: row
\* k is returned iff its value lies above mean + threshold*std or below
\* mean - threshold*std of the trailing window ending at it; a returned row
\* has the columns of its input row and anomaly = TRUE.
C8_ExactlyTheAnomalousRows ==
    Detected =>
        /\ \A k \in 1..Len(trends_data) :
              (\E i \in 1..Len(ret) : ret[i].index = k - 1)
                  <=> Anomalous(ConsumptionCells, k, call.window, call.threshold)
        /\ \A i \in 1..Len(ret) :
              /\ ret[i].anomaly
              /\ ret[i].index + 1 \in 1..Len(trends_data)
              /\ ret[i].Date = trends_data[ret[i].index + 1].Date
              /\ ret[i].Consumption = trends_data[ret[i].index + 1].Consumption
              /\ ret[i].Generation = trends_data[ret[i].index + 1].Generation
        /\ \A i \in 1..(Len(ret) - 1) : ret[i].index < ret[i + 1].index

\* A series 0, 0, 9, 0 searched with window 3 and threshold 1: the 9 is
\* above the upper bound and returned, the last row is within the bounds.
C8_Witness ==
    /\ Detected
    /\ ConsumptionCells = <<Some(0), Some(0), Some(9), Some(0)>>
    /\ call.window = 3
    /\ call.threshold = [num |-> 1, den |-> 1]
    /\ Len(ret) = 1
    /\ ret[1].index = 2
    /\ ret[1].Consumption = Some(9)

----------------------------------------------------------------------------
(* forecast_energy_trends *)

None == <<>>

\* df.groupby(["Year", "Month"])[load].sum().reset_index(), indexed by
\* Date = to_datetime(Year, Month, Day=1): one entry per month, ascending.
MonthlyData(df) ==
    LET keys == GroupKeys(df, "Monthly")
    IN  [i \in 1..Len(keys) |->
            [Date |-> <<keys[i][1], keys[i][2], 1>>,
             value |-> AggSum(LoadCells(GroupRows(df, "Monthly", keys[i])))]]

\* monthly_data[-12:]
Last12(monthly_data) ==
    [i \in 1..12 |-> monthly_data[Len(monthly_data) - 12 + i]]

\* A forecast value that grows by the step, not by the year.
ForecastValueGrowsEachStep(last_12_months, i) ==
    [num |-> last_12_months[(i % 12) + 1].value * Pow(102, (i % 12) + 1),
     den |-> Pow(100, (i % 12) + 1)]

\* last_12_months.iloc[i % 12] * (growth_factor ** (i//12 + 1)) with
\* growth_factor = 1.02 = 102/100, as an exact fraction num/den.
ForecastValue(last_12_months, i) ==
    [num |-> last_12_months[(i % 12) + 1].value * Pow(102, (i \div 12) + 1),
     den |-> Pow(100, (i \div 12) + 1)]

\* for i in range(periods): forecast_values.append(...), from step i on.
RECURSIVE ForecastValues(_, _, _)
ForecastValues(last_12_months, i, periods) ==
    IF i >= periods THEN <<>>
    ELSE <<ForecastValue(last_12_months, i)>> \o ForecastValues(last_12_months, i + 1, periods)

\* Forecast dates that start on the last historical date itself.
ForecastDatesFromZero(last_date, periods) ==
    [i \in 1..periods |-> Ordinal(last_date) + 30 * (i - 1)]

\* [last_date + timedelta(days=30*i) for i in range(1, periods+1)], as day
\* numbers.
ForecastDates(last_date, periods) ==
    [i \in 1..periods |-> Ordinal(last_date) + 30 * i]

\* A history test that asks for more than twelve months.
EnoughHistoryStrict(monthly_data) == Len(monthly_data) > 12

\* if len(monthly_data) >= 12
EnoughHistory(monthly_data) == Len(monthly_data) >= 12

\* Returns (monthly_data, forecast), or (None, None) on a short history.
forecast_energy_trends(df, periods) ==
    LET monthly_data == MonthlyData(df)
    IN  IF EnoughHistory(monthly_data)
        THEN LET last_12_months == Last12(monthly_data)
                 last_date == monthly_data[Len(monthly_data)].Date
                 forecast_dates == ForecastDates(last_date, periods)
                 forecast_values == ForecastValues(last_12_months, 0, periods)
             IN  [historical |-> Some(monthly_data),
                  forecast |-> Some([i \in 1..periods |->
                                        [Date |-> forecast_dates[i],
                                         value |-> forecast_values[i]]])]
        ELSE [historical |-> None, forecast |-> None]

----------------------------------------------------------------------------
(* The forecast specification: forecast_energy_trends on a consumption     *)
(* table of about a year of months.                                        *)

MinMonths == 10

MaxMonths == 14

MaxPeriods == 25

\* The j-th month (j = 0, 1, ...) from a first month <<year, month>>.
MonthAt(first, j) ==
    <<first[1] + ((first[2] - 1 + j) \div 12), ((first[2] - 1 + j) % 12) + 1, 15>>

Reverse(s) == [i \in 1..Len(s) |-> s[Len(s) + 1 - i]]

\* n consecutive months from `first`, one row a month with load 3 + j in
\* month j; with extra = j > 0 a second row (load 50) in month j; with a
\* row without a date when nat; in file order or reversed.
HistoryRaws(first, n, extra, nat, reversed) ==
    LET months == [j \in 1..n |-> [Start |-> MonthAt(first, j - 1), load |-> Some(3 + j)]]
        second == IF extra > 0
                  THEN <<[Start |-> MonthAt(first, extra - 1), load |-> Some(50)]>>
                  ELSE <<>>
        undated == IF nat THEN <<[Start |-> NaT, load |-> Some(7)]>> ELSE <<>>
        rows == months \o second \o undated
    IN  IF reversed THEN Reverse(rows) ELSE rows

HistoryTables ==
    {LoadCons(HistoryRaws(first, n, extra, nat, reversed)) :
        first \in {<<2022, 1>>, <<2022, 11>>}, n \in MinMonths..MaxMonths,
        extra \in {0, 1, 2, MinMonths}, nat \in BOOLEAN, reversed \in BOOLEAN}

InitForecast ==
    /\ energy_generation = NoTable
    /\ energy_consumption \in HistoryTables
    /\ trends_data = NoTable
    /\ call = NoCall
    /\ ret = [gen |-> NoTable, cons |-> NoTable]
    /\ EnvIdle

\* historical_data, forecast_data = forecast_energy_trends(energy_consumption, periods)
ForecastEnergyTrends(periods) ==
    /\ call.op = "none"
    /\ ret' = forecast_energy_trends(energy_consumption, periods)
    /\ call' = [op |-> "forecast_energy_trends", periods |-> periods]
    /\ UNCHANGED <<energy_generation, energy_consumption, trends_data>>
    /\ UNCHANGED env

NextForecast == \E periods \in 0..MaxPeriods : ForecastEnergyTrends(periods)

SpecForecast == InitForecast /\ [][NextForecast]_vars

Forecasted == call.op = "forecast_energy_trends"

\* The (Year, Month) buckets of the consumption table.
Buckets(df) ==
    {<<df[i].Start[1], df[i].Start[2]>> : i \in {j \in 1..Len(df) : df[j].Start # NaT}}

\* C9: forecast_energy_trends returns (None, None) when the consumption
\* table has fewer than 12 distinct (Year, Month) buckets and a pair of two
\* non-null values when it has 12 or more.
C9_TwelveMonthsOrNone ==
    Forecasted =>
        IF Cardinality(Buckets(energy_consumption)) < 12
        THEN ret.historical = None /\ ret.forecast = None
        ELSE ret.historical # None /\ ret.forecast # None

\* Twelve rows of eleven months (one month has two rows): no forecast.
C9_Witness ==
    /\ Forecasted
    /\ Len(energy_consumption) = 12
    /\ Cardinality(Buckets(energy_consumption)) = 11
    /\ ret.forecast = None

\* The load total of one (Year, Month) bucket.
BucketTotal(df, b) ==
    LET In(row) == row.Start # NaT /\ row.Start[1] = b[1] /\ row.Start[2] = b[2]
    IN  SumSeq(LoadCells(SelectSeq(df, In)))

\* The bucket with exactly r buckets after it: r = 0 is the latest month.
BucketFromEnd(S, r) ==
    CHOOSE b \in S : Cardinality({c \in S : KeyLess(b, c)}) = r

\* C10: with at least 12 monthly buckets, the forecast value at step i
\* (0 <= i < periods) is template[i mod 12] * 1.02^((i div 12) + 1), the
\* fraction template[i mod 12] * 102^k / 100^k with k = (i div 12) + 1, where
\* template[0..11] are the consumption sums of the 12 latest months, oldest
\* first.
C10_SeasonalRepeat ==
    (Forecasted /\ ret.forecast # None) =>
        LET B == Buckets(energy_consumption)
            template == [j \in 0..11 |-> BucketTotal(energy_consumption, BucketFromEnd(B, 11 - j))]
            forecast == Val(ret.forecast)
        IN  \A i \in 0..(call.periods - 1) :
                /\ i + 1 <= Len(forecast)
                /\ forecast[i + 1].value.num = template[i % 12] * Pow(102, (i \div 12) + 1)
                /\ forecast[i + 1].value.den = Pow(100, (i \div 12) + 1)

\* A forecast of more than a year from a history of more than twelve
\* months, given newest first: step 12 is the template's first month with
\* two years of growth.
C10_Witness ==
    /\ Forecasted
    /\ ret.forecast # None
    /\ call.periods = 14
    /\ Cardinality(Buckets(energy_consumption)) = 13
    /\ energy_consumption[1].Start # NaT
    /\ energy_consumption[2].Start # NaT
    /\ KeyLess(energy_consumption[2].Start, energy_consumption[1].Start)
    /\ Val(ret.forecast)[13].value.den = 10000
    /\ Val(ret.forecast)[1].value.den = 100

\* The first day of the latest month of the history.
LastHistoricalDate(df) ==
    LET b == BucketFromEnd(Buckets(df), 0)
    IN  <<b[1], b[2], 1>>

\* C11: a successful forecast has exactly `periods` points; the k-th point
\* (k = 1..periods) is dated 30*k days after the last historical month's
\* date, so the dates ascend strictly and all lie after that date.
C11_ForecastDates ==
    (Forecasted /\ ret.forecast # None) =>
        LET forecast == Val(ret.forecast)
            last == Ordinal(LastHistoricalDate(energy_consumption))
        IN  /\ Len(forecast) = call.periods
            /\ \A k \in 1..Len(forecast) :
                  /\ forecast[k].Date = last + 30 * k
                  /\ forecast[k].Date > last
                  /\ k > 1 => forecast[k - 1].Date < forecast[k].Date
            /\ Val(ret.historical)[Len(Val(ret.historical))].Date
                  = LastHistoricalDate(energy_consumption)

\* A forecast of 12 points from a history that ends in December 2022 (day
\* 738490 is 2022-12-01): the first point is dated 2022-12-31.
C11_Witness ==
    /\ Forecasted
    /\ ret.forecast # None
    /\ call.periods = 12
    /\ LastHistoricalDate(energy_consumption) = <<2022, 12, 1>>
    /\ Len(Val(ret.forecast)) = 12
    /\ Val(ret.forecast)[1].Date = 738520
    /\ Val(ret.forecast)[12].Date = 738850

----------------------------------------------------------------------------
(* analyze_energy_trends: the nine metrics of the filtered tables.  A      *)
(* column name is a sequence of characters, so that `in` and lower() are   *)
(* computed on the name.  A float is a ratio [num, den]; the non-finite    *)
(* floats have den = 0: inf is 1/0 and nan is 0/0.                         *)

\* '[MWh]'
UnitMarker == <<"[", "M", "W", "h", "]">>

\* What follows the source's name in a generation column's name.
ColumnSuffix ==
    <<" ", "[", "M", "W", "h", "]", " ", "C", "a", "l", "c", "u", "l", "a", "t",
      "e", "d", " ", "r", "e", "s", "o", "l", "u", "t", "i", "o", "n", "s">>

\* ['solar', 'wind', 'hydro', 'biomass', 'geothermal']
RenewableKeywords ==
    {<<"s", "o", "l", "a", "r">>,
     <<"w", "i", "n", "d">>,
     <<"h", "y", "d", "r", "o">>,
     <<"b", "i", "o", "m", "a", "s", "s">>,
     <<"g", "e", "o", "t", "h", "e", "r", "m", "a", "l">>}

\* The characters of a source's name.
SourceChars(source) ==
    CASE source = "Solar" -> <<"S", "o", "l", "a", "r">>
      [] source = "Coal" -> <<"C", "o", "a", "l">>
      [] source = "Wind Onshore" ->
             <<"W", "i", "n", "d", " ", "O", "n", "s", "h", "o", "r", "e">>
      [] source = "Nuclear" -> <<"N", "u", "c", "l", "e", "a", "r">>

\* The name of a source's column: f"{source} [MWh] Calculated resolutions".
ColumnName(source) == SourceChars(source) \o ColumnSuffix

\* str.lower() on one character (the capitals that occur in column names).
Lower(ch) ==
    CASE ch = "C" -> "c"
      [] ch = "M" -> "m"
      [] ch = "N" -> "n"
      [] ch = "O" -> "o"
      [] ch = "S" -> "s"
      [] ch = "W" -> "w"
      [] OTHER -> ch

\* col.lower()
LowerStr(s) == [i \in 1..Len(s) |-> Lower(s[i])]

\* needle in hay
Contains(hay, needle) ==
    \E i \in 1..(Len(hay) - Len(needle) + 1) :
        SubSeq(hay, i, i + Len(needle) - 1) = needle

\* The source columns of a generation table (a table without rows sums to 0
\* whatever its columns are).
SourceColumns(energy_gen) ==
    IF energy_gen = <<>> THEN {} ELSE DOMAIN energy_gen[1].src

\* gen_columns = [col for col in energy_gen.columns if '[MWh]' in col]
GenColumns(energy_gen) ==
    {col \in SourceColumns(energy_gen) : Contains(ColumnName(col), UnitMarker)}

\* any(source in col.lower() for source in ['solar', ...])
IsRenewable(col) ==
    \E source \in RenewableKeywords : Contains(LowerStr(ColumnName(col)), source)

\* energy_gen[columns].apply(pd.to_numeric, errors='coerce').sum().sum()
ColumnsTotal(energy_gen, columns) ==
    SumSeq([i \in 1..Len(energy_gen) |-> Some(SumOver(energy_gen[i].src, columns))])

Ratio(n, d) == [num |-> n, den |-> d]

\* The integer 0 of the else branches.
Zero == Ratio(0, 1)

IsFinite(x) == x.den # 0

\* numpy's float division a / b: inf or nan for b = 0, no exception.
np_divide(a, b) ==
    IF b # 0 THEN Ratio(a, b)
    ELSE IF a > 0 THEN Ratio(1, 0)
    ELSE IF a < 0 THEN Ratio(-1, 0)
    ELSE Ratio(0, 0)

\* (x - 1) * 100 on a float.
GrowthPercent(x) ==
    IF IsFinite(x) THEN Ratio((x.num - x.den) * 100, x.den) ELSE x

\* A ratio that is not turned into a percentage.
EfficiencyNoPercent(total_generation, total_consumption) ==
    IF total_consumption > 0
    THEN Ratio(total_generation, total_consumption)
    ELSE Zero

\* (total_generation / total_consumption) * 100 if total_consumption > 0 else 0
Efficiency(total_generation, total_consumption) ==
    IF total_consumption > 0
    THEN Ratio(total_generation * 100, total_consumption)
    ELSE Zero

\* energy_cons.groupby("Year")[load].sum(): rows without a Year are in no group.
ConsumptionByYear(energy_cons) ==
    LET years == {Val(energy_cons[i].Year) :
                      i \in {j \in 1..Len(energy_cons) : ~IsNaN(energy_cons[j].Year)}}
        Of(y) == LET In(row) == row.Year = Some(y)
                 IN  SumSeq(LoadCells(SelectSeq(energy_cons, In)))
    IN  [y \in years |-> Of(y)]

\* The greatest element of a non-empty set of integers.
MaxOf(S) == CHOOSE x \in S : \A y \in S : y <= x

\* ((by_year[years[-1]] / by_year[years[-2]]) - 1) * 100 when there is more
\* than one year, else 0.
YoYGrowth(consumption_by_year) ==
    IF Cardinality(DOMAIN consumption_by_year) > 1
    THEN LET years == DOMAIN consumption_by_year
             current_year == MaxOf(years)
             previous_year == MaxOf(years \ {current_year})
         IN  GrowthPercent(np_divide(consumption_by_year[current_year],
                                     consumption_by_year[previous_year]))
    ELSE Zero

\* The positions of the rows with a load.
LoadPositions(energy_cons) ==
    {i \in 1..Len(energy_cons) : ~IsNaN(energy_cons[i].load)}

\* Series.idxmax(): the first position of the greatest load.  It raises on a
\* series without a value.
IdxMax(energy_cons) ==
    LET P == LoadPositions(energy_cons)
    IN  CHOOSE i \in P :
            /\ \A j \in P : Val(energy_cons[j].load) <= Val(energy_cons[i].load)
            /\ \A j \in P : j < i =>
                   Val(energy_cons[j].load) < Val(energy_cons[i].load)

\* energy_cons.groupby("Quarter")[load].mean().idxmax(): the first quarter,
\* in ascending order, of the greatest mean; None without a dated row.
HighestQuarter(energy_cons) ==
    LET quarters == {Val(energy_cons[i].Quarter) :
                        i \in {j \in 1..Len(energy_cons) : ~IsNaN(energy_cons[j].Quarter)}}
        Rows(q) == LET In(row) == row.Quarter = Some(q)
                   IN  SelectSeq(energy_cons, In)
        Total(q) == SumSeq(LoadCells(Rows(q)))
        Count(q) == Len(Rows(q))
        \* mean(a) <= mean(b)
        MeanLeq(a, b) == Total(a) * Count(b) <= Total(b) * Count(a)
    IN  IF quarters = {} THEN None
        ELSE Some(CHOOSE q \in quarters :
                      /\ \A r \in quarters : MeanLeq(r, q)
                      /\ \A r \in quarters : r < q => ~MeanLeq(q, r))

\* An except branch that returns what was computed before the step raised.
ExceptReturnsPartial(energy_gen, energy_cons) ==
    LET total_consumption == SumSeq(LoadCells(energy_cons))
        total_generation == ColumnsTotal(energy_gen, GenColumns(energy_gen))
    IN  [total_consumption |-> total_consumption,
         total_generation |-> total_generation,
         efficiency_ratio |-> Efficiency(total_generation, total_consumption),
         yoy_growth |-> YoYGrowth(ConsumptionByYear(energy_cons))]

\* except Exception: st.error(...); return {}
ExceptReturn(energy_gen, energy_cons) == <<>>

\* The step that raises in the try block: idxmax() of a load column without
\* a value (an empty table, or only NaN loads).
Raises(energy_cons) == LoadPositions(energy_cons) = {}

\* Lines 55-61: the share of the renewable columns in the total generation.
RenewablePercentage(energy_gen, energy_cons) ==
    LET gen_columns == GenColumns(energy_gen)
        total_generation == ColumnsTotal(energy_gen, gen_columns)
        renewable_columns == {col \in gen_columns : IsRenewable(col)}
    IN  IF renewable_columns # {}
        THEN IF total_generation > 0
             THEN Ratio(ColumnsTotal(energy_gen, renewable_columns) * 100,
                        total_generation)
             ELSE Zero
        ELSE Zero

analyze_energy_trends(energy_gen, energy_cons) ==
    LET total_consumption == SumSeq(LoadCells(energy_cons))
        gen_columns == GenColumns(energy_gen)
        total_generation == ColumnsTotal(energy_gen, gen_columns)
        consumption_by_year == ConsumptionByYear(energy_cons)
    IN  IF Raises(energy_cons)
        THEN ExceptReturn(energy_gen, energy_cons)
        ELSE [total_consumption |-> total_consumption,
              total_generation |-> total_generation,
              efficiency_ratio |-> Efficiency(total_generation, total_consumption),
              yoy_growth |-> YoYGrowth(consumption_by_year),
              peak_consumption |-> Val(energy_cons[IdxMax(energy_cons)].load),
              peak_date |-> energy_cons[IdxMax(energy_cons)].Start,
              renewable_percentage |-> RenewablePercentage(energy_gen, energy_cons),
              highest_quarter |-> HighestQuarter(energy_cons),
              consumption_by_year |-> consumption_by_year]

----------------------------------------------------------------------------
(* The metrics specification: analyze_energy_trends on a pair of tables.   *)
(* The loads are numbers (the load column is numeric in the files).        *)

MaxRowsMetrics == 2

MaxRowsMetricsGen == 1

MetricDates == {NaT, <<2021, 5, 1>>, <<2022, 11, 1>>, <<2023, 1, 1>>}

\* Row i has load 0 or 2 + i.
MetricConsTables ==
    {LoadCons(raws) : raws \in
        {s \in SeqsUpTo([Start : MetricDates, load : {Some(v) : v \in 0..(2 + MaxRowsMetrics + 1)}],
                        MaxRowsMetrics) :
            \A i \in 1..Len(s) : s[i].load \in {Some(0), Some(2 + i)}}}

\* The source columns of a generation file: one without a renewable column,
\* two with one (one of them spelt with capitals).
MetricLayouts == {<<"Nuclear", "Coal">>, <<"Solar", "Coal">>, <<"Wind Onshore", "Coal">>}

\* Every row has 0 or 2 in the first column and 1 or no value in the second.
MetricGenTables ==
    UNION {{LoadGen(raws) : raws \in
               SeqsUpTo({[Start |-> <<2023, 1, 1>>,
                          src |-> (layout[1] :> Some(a)) @@ (layout[2] :> b)] :
                             a \in {0, 2}, b \in {NaN, Some(1)}},
                        MaxRowsMetricsGen)} : layout \in MetricLayouts}

InitMetrics ==
    /\ energy_generation \in MetricGenTables
    /\ energy_consumption \in MetricConsTables
    /\ trends_data = NoTable
    /\ call = NoCall
    /\ ret = [gen |-> NoTable, cons |-> NoTable]
    /\ EnvIdle

\* metrics = analyze_energy_trends(filtered_energy_gen, filtered_energy_cons)
AnalyzeEnergyTrends ==
    /\ call.op = "none"
    /\ metrics' = analyze_energy_trends(energy_generation, energy_consumption)
    /\ call' = [op |-> "analyze_energy_trends"]
    /\ UNCHANGED <<energy_generation, energy_consumption, trends_data, ret>>
    /\ UNCHANGED <<files, cache, now, session, shown, prediction_cache>>

NextMetrics == AnalyzeEnergyTrends

SpecMetrics == InitMetrics /\ [][NextMetrics]_vars

Analyzed == call.op = "analyze_energy_trends"

\* The total of the load column.
TotalLoad(df) == SumSeq(LoadCells(df))

\* The total of all source columns.
TotalGenerated(df) == ColumnsTotal(df, SourceColumns(df))

\* Two ratios are the same number.
SameRatio(x, y) == x.den # 0 /\ y.den # 0 /\ x.num * y.den = y.num * x.den

\* C12: analyze_energy_trends reports efficiency_ratio = 0, not an error or
\* an empty result, for every pair of tables whose total consumption is 0
\* (a consumption table with no rows included); otherwise it reports
\* total generation / total consumption * 100.
C12_EfficiencyRatio ==
    Analyzed =>
        /\ "efficiency_ratio" \in DOMAIN metrics
        /\ IF TotalLoad(energy_consumption) = 0
           THEN metrics.efficiency_ratio = Zero
           ELSE SameRatio(metrics.efficiency_ratio,
                          Ratio(TotalGenerated(energy_generation) * 100,
                                TotalLoad(energy_consumption)))

\* The sources of the model whose column name contains solar, wind, hydro,
\* biomass or geothermal, in any case.
RenewableSources == {"Solar", "Wind Onshore"}

\* C13: analyze_energy_trends reports renewable_percentage = 0 when no
\* generation column name contains solar, wind, hydro, biomass or geothermal
\* (in any case); otherwise it is the sum of those columns divided by the
\* total generation, times 100, so it lies between 0 and 100.
C13_RenewablePercentage ==
    Analyzed =>
        /\ "renewable_percentage" \in DOMAIN metrics
        /\ LET renewable == SourceColumns(energy_generation) \cap RenewableSources
               total == TotalGenerated(energy_generation)
               p == metrics.renewable_percentage
           IN  /\ renewable = {} => p = Zero
               /\ (renewable # {} /\ total > 0) =>
                      SameRatio(p, Ratio(ColumnsTotal(energy_generation, renewable) * 100,
                                         total))
               /\ p.den > 0 /\ 0 <= p.num /\ p.num <= 100 * p.den

\* The years of the consumption table's dated rows.
YearsOf(df) == {Val(df[i].Year) : i \in {j \in 1..Len(df) : ~IsNaN(df[j].Year)}}

\* The total load of the rows of year y.
YearTotal(df, y) ==
    LET In(row) == row.Year = Some(y)
    IN  SumSeq(LoadCells(SelectSeq(df, In)))

\* C14: yoy_growth is (latest year's total / previous year's total - 1) * 100
\* when the consumption table has at least two distinct years, and 0 when it
\* has fewer; it is a finite number also when the previous year's total is 0.
C14_YoYGrowth ==
    Analyzed =>
        /\ "yoy_growth" \in DOMAIN metrics
        /\ LET years == YearsOf(energy_consumption)
               g == metrics.yoy_growth
           IN  /\ IsFinite(g)
               /\ Cardinality(years) < 2 => g = Zero
               /\ Cardinality(years) >= 2 =>
                      LET latest == MaxOf(years)
                          previous == MaxOf(years \ {latest})
                          a == YearTotal(energy_consumption, latest)
                          b == YearTotal(energy_consumption, previous)
                      IN  b # 0 => SameRatio(g, Ratio((a - b) * 100, b))

\* The nine keys of the metrics mapping.
NineKeys ==
    {"total_consumption", "total_generation", "efficiency_ratio", "yoy_growth",
     "peak_consumption", "peak_date", "renewable_percentage", "highest_quarter",
     "consumption_by_year"}

\* C15: analyze_energy_trends is all or nothing: it returns a mapping with
\* all nine metric keys, or the empty mapping when a step raises (here: the
\* load column has no value); it returns in every case and never returns
\* some of the keys.
C15_AllOrNothing ==
    Analyzed =>
        /\ DOMAIN metrics \in {{}, NineKeys}
        /\ DOMAIN metrics = {} <=>
               \A i \in 1..Len(energy_consumption) : IsNaN(energy_consumption[i].load)

\* A step raised (a consumption table without rows, a generation table with
\* a row) and the result is the empty mapping.
C15_Witness ==
    /\ Analyzed
    /\ energy_consumption = <<>>
    /\ Len(energy_generation) = 1
    /\ DOMAIN metrics = {}

----------------------------------------------------------------------------
(* load_data: the search for the two CSV files in the candidate            *)
(* directories, the read, and st.cache_data(ttl=3600) around it.           *)
(* files[d] holds, for the d-th candidate directory, the generation file   *)
(* and the consumption file: whether it exists, whether pd.read_csv and    *)
(* the column accesses succeed on it, and its rows.                        *)

\* The number of possible_locations.
NumLocations == 5

\* ttl=3600, in seconds.
TTL == 3600

Absent == [exists |-> FALSE, parses |-> FALSE, rows |-> <<>>]

\* A file that exists and on which reading or the "Start date" column fails.
Unreadable == [exists |-> TRUE, parses |-> FALSE, rows |-> <<>>]

CsvFile(raws) == [exists |-> TRUE, parses |-> TRUE, rows |-> raws]

NoFiles == [d \in 1..NumLocations |-> [gen |-> Absent, cons |-> Absent]]

\* gen_file_path / cons_file_path = None
NoPath == 0

\* The for loop over possible_locations from location `loc` on: every
\* location where a file exists replaces the path found before, and the
\* loop ends as soon as both paths are set.
RECURSIVE FindFiles(_, _, _, _)
FindFiles(fs, loc, gen_file_path, cons_file_path) ==
    IF loc > NumLocations
    THEN [gen |-> gen_file_path, cons |-> cons_file_path]
    ELSE LET g == IF fs[loc].gen.exists THEN loc ELSE gen_file_path
             c == IF fs[loc].cons.exists THEN loc ELSE cons_file_path
         IN  IF g # NoPath /\ c # NoPath
             THEN [gen |-> g, cons |-> c]
             ELSE FindFiles(fs, loc + 1, g, c)

\* An except branch that hands back the table that was read.
ExceptKeepsGeneration(fs) ==
    LET found == FindFiles(fs, 1, NoPath, NoPath)
    IN  [gen |-> IF found.gen # NoPath /\ fs[found.gen].gen.parses
                 THEN LoadGen(fs[found.gen].gen.rows)
                 ELSE NoTable,
         cons |-> NoTable]

\* except Exception: ...; return pd.DataFrame(), pd.DataFrame()
ExceptLoad(fs) == [gen |-> NoTable, cons |-> NoTable]

\* The body of load_data.
load_data(fs) ==
    LET found == FindFiles(fs, 1, NoPath, NoPath)
    IN  IF found.gen = NoPath \/ found.cons = NoPath
        THEN ExceptLoad(fs)                           \* FileNotFoundError
        ELSE IF ~fs[found.gen].gen.parses \/ ~fs[found.cons].cons.parses
        THEN ExceptLoad(fs)                           \* read_csv / KeyError
        ELSE [gen |-> LoadGen(fs[found.gen].gen.rows),
              cons |-> LoadCons(fs[found.cons].cons.rows)]

\* An entry that never expires.
FreshForever(stored, time) == TRUE

\* An entry stored at `stored` is served at `time` while its age is below
\* the ttl.
Fresh(stored, time) == time - stored < TTL

\* energy_generation, energy_consumption = load_data(): the cached call.
\* A fresh entry is returned as it is; otherwise the body runs and its
\* result, a failure's pair of empty tables too, becomes the entry.
LoadData ==
    LET hit == cache # <<>> /\ Fresh(cache[1].stored, now)
        result == IF hit THEN cache[1].value ELSE load_data(files)
    IN  /\ ret' = result
        /\ energy_generation' = result.gen
        /\ energy_consumption' = result.cons
        /\ cache' = IF hit THEN cache ELSE <<[value |-> result, stored |-> now]>>
        /\ call' = [op |-> "load_data", files_read |-> ~hit]
        /\ UNCHANGED <<trends_data, metrics, files, now, session, shown, prediction_cache>>

----------------------------------------------------------------------------
(* The loader specification: load_data on every arrangement of files in    *)
(* which at most MaxPopulated directories hold a file.                     *)

MaxPopulated == 2

\* The files of directory d: their rows name the directory.
GenFileOf(d) ==
    CsvFile(<<[Start |-> <<2023, 1, d>>, src |-> ("Solar" :> Some(d)) @@ ("Coal" :> Some(1))]>>)

ConsFileOf(d) == CsvFile(<<[Start |-> <<2023, 1, d>>, load |-> Some(10 * d)]>>)

FileKinds == {"absent", "unreadable", "csv"}

\* The file of a kind, with `csv` as its readable form.
FileOfKind(kind, csv) ==
    CASE kind = "absent" -> Absent
      [] kind = "unreadable" -> Unreadable
      [] kind = "csv" -> csv

LoadFiles ==
    UNION {{[d \in 1..NumLocations |->
                IF d \in P
                THEN [gen |-> FileOfKind(k[d][1], GenFileOf(d)),
                      cons |-> FileOfKind(k[d][2], ConsFileOf(d))]
                ELSE [gen |-> Absent, cons |-> Absent]] :
             k \in [P -> FileKinds \X FileKinds]} :
           P \in {Q \in SUBSET (1..NumLocations) : Cardinality(Q) <= MaxPopulated}}

InitLoad ==
    /\ energy_generation = NoTable
    /\ energy_consumption = NoTable
    /\ trends_data = NoTable
    /\ call = NoCall
    /\ ret = [gen |-> NoTable, cons |-> NoTable]
    /\ metrics = <<>>
    /\ files \in LoadFiles
    /\ cache = <<>>
    /\ now = 0
    /\ session = <<>>
    /\ shown = <<>>
    /\ prediction_cache = {}

NextLoad == LoadData

SpecLoad == InitLoad /\ [][NextLoad]_vars

Loaded == call.op = "load_data"

\* The file is in none of the candidate directories.
MissingEverywhere(kind) == \A d \in 1..NumLocations : ~files[d][kind].exists

\* Every file of that kind that exists is unreadable.
NoneReadable(kind) ==
    \A d \in 1..NumLocations : files[d][kind].exists => ~files[d][kind].parses

\* Every file that exists can be read.
AllReadable ==
    \A d \in 1..NumLocations :
        /\ files[d].gen.exists => files[d].gen.parses
        /\ files[d].cons.exists => files[d].cons.parses

\* C17: load_data never raises: when the generation file or the consumption
\* file is missing from every candidate directory, or when reading or
\* parsing fails, it returns two empty tables (both empty also when only
\* one file is missing); otherwise it returns the two loaded tables.
C17_LoadNeverRaises ==
    Loaded =>
        /\ (ret.gen = NoTable) <=> (ret.cons = NoTable)
        /\ (MissingEverywhere("gen") \/ MissingEverywhere("cons")) =>
               ret = [gen |-> NoTable, cons |-> NoTable]
        /\ (NoneReadable("gen") \/ NoneReadable("cons")) =>
               ret = [gen |-> NoTable, cons |-> NoTable]
        /\ (~MissingEverywhere("gen") /\ ~MissingEverywhere("cons") /\ AllReadable) =>
               (ret.gen # NoTable /\ ret.cons # NoTable)

\* Only the consumption file is missing: the generation file of the first
\* directory is readable, and both tables are empty.
C17_Witness ==
    /\ Loaded
    /\ files[1].gen = GenFileOf(1)
    /\ MissingEverywhere("cons")
    /\ ret = [gen |-> NoTable, cons |-> NoTable]

----------------------------------------------------------------------------
(* The cache specification: calls of load_data while time passes, the      *)
(* files of the first directory change, and the process restarts.          *)

\* The seconds between two looks at the clock.
TickStep == 1800

\* The last second looked at.
MaxTime == 7200

\* The first directory holds version v of a file, or not the file.
CacheFiles ==
    {[NoFiles EXCEPT ![1] = [gen |-> g, cons |-> c]] :
        g \in {Absent, GenFileOf(1), GenFileOf(2)},
        c \in {Absent, ConsFileOf(1), ConsFileOf(2)}}

InitCache ==
    /\ energy_generation = NoTable
    /\ energy_consumption = NoTable
    /\ trends_data = NoTable
    /\ call = NoCall
    /\ ret = [gen |-> NoTable, cons |-> NoTable]
    /\ metrics = <<>>
    /\ files \in CacheFiles
    /\ cache = <<>>
    /\ now = 0
    /\ session = <<>>
    /\ shown = <<>>
    /\ prediction_cache = {}

\* Time passes.
Tick ==
    /\ now + TickStep <= MaxTime
    /\ now' = now + TickStep
    /\ UNCHANGED <<energy_generation, energy_consumption, trends_data, call, ret,
                   metrics, files, cache, session, shown, prediction_cache>>

\* A file is changed, added or removed.
ChangeFiles ==
    /\ files' \in CacheFiles \ {files}
    /\ UNCHANGED <<energy_generation, energy_consumption, trends_data, call, ret,
                   metrics, cache, now, session, shown, prediction_cache>>

\* The process restarts: the in-memory cache and the page's state are gone.
Restart ==
    /\ cache # <<>>
    /\ cache' = <<>>
    /\ call' = NoCall
    /\ ret' = [gen |-> NoTable, cons |-> NoTable]
    /\ energy_generation' = NoTable
    /\ energy_consumption' = NoTable
    /\ UNCHANGED <<trends_data, metrics, files, now, session, shown, prediction_cache>>

NextCache ==
    \/ LoadData
    \/ Tick
    \/ ChangeFiles
    \/ Restart

SpecCache == InitCache /\ [][NextCache]_vars

\* C18: a load_data call made less than one hour after a call that read the
\* files returns that call's snapshot and does not read the files, whatever
\* the files are by then; the files are read only by a call that finds no
\* snapshot (the first call, or the first after a restart) or a snapshot
\* that is one hour old or older.
C18_SnapshotForOneHour ==
    [][LoadData =>
          IF cache # <<>> /\ now - cache[1].stored < 3600
          THEN /\ ~call'.files_read
               /\ ret' = cache[1].value
               /\ cache' = cache
          ELSE /\ call'.files_read
               /\ ret' = load_data(files)
               /\ cache' = <<[value |-> ret', stored |-> now]>>]_vars

\* Half an hour after the call that read version 1 of both files, with the
\* files changed to version 2 since, a call returned the version 1 tables.
C18_Witness ==
    /\ Loaded
    /\ ~call.files_read
    /\ cache # <<>>
    /\ now - cache[1].stored = TickStep
    /\ files[1] = [gen |-> GenFileOf(2), cons |-> ConsFileOf(2)]
    /\ ret = load_data([NoFiles EXCEPT ![1] = [gen |-> GenFileOf(1), cons |-> ConsFileOf(1)]])
    /\ ret # load_data(files)

----------------------------------------------------------------------------
(* The page specification: one run of the dashboard page on the files of   *)
(* the first directory: load_data, filter_data with the sidebar's          *)
(* selection, analyze_energy_trends and prepare_trends_data on the         *)
(* filtered tables.                                                        *)

MaxRowsPage == 2

PageDates == {NaT, <<2023, 1, 1>>, <<2023, 2, 1>>}

\* A consumption file of 1..MaxRowsPage rows: row i has load 100 + 20 (i - 1).
PageConsFiles ==
    {CsvFile([i \in 1..Len(dates) |-> [Start |-> dates[i], load |-> Some(100 + 20 * (i - 1))]]) :
        dates \in SeqsUpTo(PageDates, MaxRowsPage) \ {<<>>}}

\* A generation file with the one source column Solar: row i has
\* 50 + 10 (i - 1).
PageGenFiles ==
    {CsvFile([i \in 1..Len(dates) |->
                 [Start |-> dates[i], src |-> ("Solar" :> Some(50 + 10 * (i - 1)))]]) :
        dates \in SeqsUpTo(PageDates, MaxRowsPage) \ {<<>>}}

PageFiles ==
    {[NoFiles EXCEPT ![1] = [gen |-> g, cons |-> c]] :
        g \in PageGenFiles, c \in PageConsFiles \cup {Absent}}

PageYearSelections == {<<2022, 2022>>, <<2022, 2023>>, <<2023, 2023>>}

PageMonthSelections == {{}, {2}, {1, 2}}

\* Source selections: Nuclear has no column in the generation file.
PageSourceSelections == {{"Solar"}, {"Nuclear"}, {"Solar", "Nuclear"}}

InitPage ==
    /\ energy_generation = NoTable
    /\ energy_consumption = NoTable
    /\ trends_data = NoTable
    /\ call = NoCall
    /\ ret = [gen |-> NoTable, cons |-> NoTable]
    /\ metrics = <<>>
    /\ files \in PageFiles
    /\ cache = <<>>
    /\ now = 0
    /\ session = <<>>
    /\ shown = <<>>
    /\ prediction_cache = {}

\* filter_data(energy_generation, energy_consumption, ...), which the page
\* reaches only with two non-empty tables.
PageFilterData(year_selection, month_selection) ==
    /\ call.op = "load_data"
    /\ energy_generation # NoTable
    /\ energy_consumption # NoTable
    /\ ret' = filter_data(energy_generation, energy_consumption,
                          year_selection, month_selection, {})
    /\ call' = [op |-> "filter_data", year_selection |-> year_selection,
                month_selection |-> month_selection]
    /\ UNCHANGED <<energy_generation, energy_consumption, trends_data>>
    /\ UNCHANGED env

\* metrics = analyze_energy_trends(filtered_energy_gen, filtered_energy_cons)
PageAnalyze ==
    /\ call.op = "filter_data"
    /\ metrics' = analyze_energy_trends(ret.gen, ret.cons)
    /\ call' = [call EXCEPT !.op = "analyze_energy_trends"]
    /\ UNCHANGED <<energy_generation, energy_consumption, trends_data, ret>>
    /\ UNCHANGED <<files, cache, now, session, shown, prediction_cache>>

Raised == [raised |-> TRUE, value |-> NoTable]

Returned(value) == [raised |-> FALSE, value |-> value]

\* filtered_energy_gen[gen_columns] and agg({col: "sum"}) raise KeyError for
\* a selected source without a column; nothing in prepare_trends_data
\* catches it.
MissingColumn(columns, selected_sources) == ~(selected_sources \subseteq columns)

\* The Quarterly branch labels the grouped frames with apply(axis=1); on a
\* grouped frame without a row, apply returns a frame and not a column, and
\* the assignment of the Date column raises or not with the pandas build.
LabelsEmptyFrame(cons, gen, view_type) ==
    /\ view_type = "Quarterly"
    /\ (GroupKeys(cons, view_type) = <<>> \/ GroupKeys(gen, view_type) = <<>>)

\* What a call of prepare_trends_data can do.
PrepareTrendsOutcomes(cons, gen, columns, selected_sources, view_type) ==
    IF MissingColumn(columns, selected_sources)
    THEN {Raised}
    ELSE IF LabelsEmptyFrame(cons, gen, view_type)
    THEN {Raised, Returned(prepare_trends_data(cons, gen, selected_sources, view_type))}
    ELSE {Returned(prepare_trends_data(cons, gen, selected_sources, view_type))}

\* trends_data = prepare_trends_data(filtered_energy_cons,
\* filtered_energy_gen, selected_sources, view_type); an exception ends the
\* run of the page.
PagePrepareTrends(selected_sources, view_type) ==
    /\ call.op = "analyze_energy_trends"
    /\ \E outcome \in PrepareTrendsOutcomes(ret.cons, ret.gen,
                                            SourceColumns(energy_generation),
                                            selected_sources, view_type) :
          /\ trends_data' = IF outcome.raised THEN trends_data ELSE outcome.value
          /\ call' = [op |-> "prepare_trends_data",
                      year_selection |-> call.year_selection,
                      month_selection |-> call.month_selection,
                      selected_sources |-> selected_sources,
                      view_type |-> view_type,
                      raised |-> outcome.raised]
    /\ UNCHANGED <<energy_generation, energy_consumption, ret>>
    /\ UNCHANGED env

\* One run of the page, from its load_data call on.
NextPage ==
    \/ (call.op = "none" /\ LoadData)
    \/ \E ys \in PageYearSelections, ms \in PageMonthSelections : PageFilterData(ys, ms)
    \/ PageAnalyze
    \/ \E ss \in PageSourceSelections, vt \in ViewTypes : PagePrepareTrends(ss, vt)

SpecPage == InitPage /\ [][NextPage]_vars

TrendsPrepared == call.op = "prepare_trends_data"

\* C16: with consumption rows (2023-01-01, 100), (2023-02-01, 120) and
\* generation rows (2023-01-01, Solar 50), (2023-02-01, Solar 60), filtering
\* to the years (2023, 2023) and the months [1, 2] and then preparing the
\* Monthly trends of Solar yields exactly two trend rows (January:
\* Consumption 100, Generation 50; February: Consumption 120, Generation 60),
\* and the metrics of the filtered tables have efficiency_ratio = 50.
C16_EndToEnd ==
    (/\ TrendsPrepared
     /\ Column(files[1].cons.rows, "Start") = <<<<2023, 1, 1>>, <<2023, 2, 1>>>>
     /\ Column(files[1].gen.rows, "Start") = <<<<2023, 1, 1>>, <<2023, 2, 1>>>>
     /\ call.year_selection = <<2023, 2023>>
     /\ call.month_selection = {1, 2}
     /\ call.view_type = "Monthly"
     /\ call.selected_sources = {"Solar"})
    =>
        /\ ~call.raised
        /\ Len(trends_data) = 2
        /\ trends_data[1].Date = Some(<<2023, 1, 1>>)
        /\ trends_data[1].Consumption = Some(100)
        /\ trends_data[1].Generation = Some(50)
        /\ trends_data[2].Date = Some(<<2023, 2, 1>>)
        /\ trends_data[2].Consumption = Some(120)
        /\ trends_data[2].Generation = Some(60)
        /\ "efficiency_ratio" \in DOMAIN metrics
        /\ SameRatio(metrics.efficiency_ratio, Ratio(50, 1))

\* The scenario has run to its end.
C16_Witness ==
    /\ TrendsPrepared
    /\ Column(files[1].cons.rows, "load") = <<Some(100), Some(120)>>
    /\ Column(files[1].cons.rows, "Start") = <<<<2023, 1, 1>>, <<2023, 2, 1>>>>
    /\ Column(files[1].gen.rows, "Start") = <<<<2023, 1, 1>>, <<2023, 2, 1>>>>
    /\ files[1].gen.rows[1].src["Solar"] = Some(50)
    /\ files[1].gen.rows[2].src["Solar"] = Some(60)
    /\ call.year_selection = <<2023, 2023>>
    /\ call.month_selection = {1, 2}
    /\ call.view_type = "Monthly"
    /\ call.selected_sources = {"Solar"}
    /\ Len(trends_data) = 2
    /\ metrics.total_generation = 110
    /\ metrics.total_consumption = 220

\* C19: every component turns its failures into its empty-result sentinel
\* and does not raise, for every input, a selected source without a column
\* in the generation table included: here, prepare_trends_data never raises.
C19_NoComponentRaises == TrendsPrepared => ~call.raised

\* The rows of a table whose Start date was not parsed.
Undated(df) == {i \in 1..Len(df) : df[i].Start = NaT}

\* All six calendar fields of the row are null.
CalendarNull(row) ==
    /\ IsNaN(row.Year) /\ IsNaN(row.Month) /\ IsNaN(row.Day)
    /\ IsNaN(row.Quarter) /\ IsNaN(row.WeekDay) /\ IsNaN(row.MonthName)

\* The rows of a loaded table that are dated and in the selection.
DatedSelected(df, year_selection, month_selection) ==
    LET In(row) == row.Start # NaT /\ InSelection(row, year_selection, month_selection)
    IN  SelectSeq(df, In)

Filtered == call.op \in {"filter_data", "analyze_energy_trends", "prepare_trends_data"}

\* C20: a row whose Start date could not be parsed has Year, Month, Day,
\* Quarter, WeekDay and MonthName all null after load_data; filter_data
\* drops it for every year range and month set; and it contributes to no
\* row of the trend table that prepare_trends_data makes of the filtered
\* tables, for every granularity: every trend row is dated from a parsed
\* row and the Consumption and Generation totals are those of the dated
\* rows of the selection.
C20_UnparsedDateExcluded ==
    /\ \A i \in Undated(energy_consumption) : CalendarNull(energy_consumption[i])
    /\ \A i \in Undated(energy_generation) : CalendarNull(energy_generation[i])
    /\ Loaded =>
          /\ \A i \in 1..Len(energy_consumption) :
                files[1].cons.rows[i].Start = NaT => CalendarNull(energy_consumption[i])
          /\ \A i \in 1..Len(energy_generation) :
                files[1].gen.rows[i].Start = NaT => CalendarNull(energy_generation[i])
    /\ Filtered =>
          /\ \A i \in Undated(energy_consumption) :
                energy_consumption[i].ID \notin RowSet(IDs(ret.cons))
          /\ \A i \in Undated(energy_generation) :
                energy_generation[i].ID \notin RowSet(IDs(ret.gen))
    /\ (TrendsPrepared /\ ~call.raised) =>
          LET cons == DatedSelected(energy_consumption, call.year_selection,
                                    call.month_selection)
              gen == DatedSelected(energy_generation, call.year_selection,
                                   call.month_selection)
          IN  /\ SumSeq(Column(trends_data, "Consumption")) = SumSeq(LoadCells(cons))
              /\ \A i \in 1..Len(trends_data) :
                    ~IsNaN(trends_data[i].Consumption) => ~IsNaN(trends_data[i].Date)
              /\ SumSeq(Column(trends_data, "Generation")) \in
                    {0, SumSeq(SrcCells(gen, "Solar"))}
              /\ (call.view_type # "Daily" \/ Len(cons) = Len(gen)) =>
                    SumSeq(Column(trends_data, "Generation"))
                        = SumSeq(SrcCells(gen, "Solar"))

\* Both files have a row without a date before a dated row; the Daily
\* trends of the whole year 2023 have the one row of the dated rows.
C20_Witness ==
    /\ TrendsPrepared
    /\ ~call.raised
    /\ call.view_type = "Daily"
    /\ call.month_selection = {1, 2}
    /\ Undated(energy_consumption) = {1}
    /\ Undated(energy_generation) = {1}
    /\ Len(energy_consumption) = 2
    /\ Len(trends_data) = 1
    /\ trends_data[1].Consumption = Some(120)
    /\ trends_data[1].Generation = Some(60)

----------------------------------------------------------------------------
(* Further properties of filter_data and load_data *)

\* The columns of a table's rows: the fields and the source columns.
SameColumns(out, df) ==
    \A i \in 1..Len(out) :
        \E j \in 1..Len(df) :
            /\ DOMAIN out[i] = DOMAIN df[j]
            /\ "src" \in DOMAIN df[j] => DOMAIN out[i].src = DOMAIN df[j].src

\* C23: filter_data has no side effects and ignores the source selection:
\* a call leaves both input tables as they were, its output is the same for
\* every value of selected_sources, and every column of an input table is a
\* column of the corresponding output table.
C23_FilterPureIgnoresSources ==
    [][(call.op = "none" /\ call'.op = "filter_data") =>
          /\ energy_generation' = energy_generation
          /\ energy_consumption' = energy_consumption
          /\ \A ss \in SUBSET Sources :
                ret' = filter_data(energy_generation, energy_consumption,
                                   call'.year_selection, call'.month_selection, ss)
          /\ SameColumns(ret'.gen, energy_generation)
          /\ SameColumns(ret'.cons, energy_consumption)]_vars

\* A call that dropped a generation row and kept one, with both source
\* columns.
C23_Witness ==
    /\ call.op = "filter_data"
    /\ Len(energy_generation) = 2
    /\ Len(ret.gen) = 1
    /\ DOMAIN ret.gen[1].src = Sources
    /\ Len(ret.cons) = 1

\* C24: after a successful load_data each of the two tables has an ID
\* column whose values are 1, 2, ..., n in row order, n being that table's
\* row count (the row count of its file); the two numberings do not depend
\* on each other.
C24_DenseIDs ==
    (Loaded /\ ret.gen # NoTable) =>
        /\ Len(ret.gen) = Len(files[1].gen.rows)
        /\ Len(ret.cons) = Len(files[1].cons.rows)
        /\ \A i \in 1..Len(ret.gen) : ret.gen[i].ID = i
        /\ \A i \in 1..Len(ret.cons) : ret.cons[i].ID = i

\* A generation file of two rows and a consumption file of one row.
C24_Witness ==
    /\ Loaded
    /\ IDs(ret.gen) = <<1, 2>>
    /\ IDs(ret.cons) = <<1>>

\* load_data's failure result.
EmptyTables == [gen |-> NoTable, cons |-> NoTable]

\* C27: a failed load_data result is not cached as data: when a call failed
\* (a file missing or unparseable) and the files were fixed afterwards, the
\* next call within the hour reads the files and returns the data, not the
\* earlier pair of empty tables.
C27_FailureNotCached ==
    [][(/\ LoadData
        /\ cache # <<>>
        /\ cache[1].value = EmptyTables
        /\ now - cache[1].stored < TTL
        /\ load_data(files) # EmptyTables)
       => (call'.files_read /\ ret' = load_data(files))]_vars

\* The earliest candidate directory that holds the file (NoPath if none).
Earliest(kind) ==
    IF MissingEverywhere(kind) THEN NoPath
    ELSE CHOOSE d \in 1..NumLocations :
             /\ files[d][kind].exists
             /\ \A e \in 1..(d - 1) : ~files[e][kind].exists

\* What load_data returns when each file is the copy of its earliest
\* directory.
ByPriority ==
    LET g == Earliest("gen")
        c == Earliest("cons")
    IN  IF g = NoPath \/ c = NoPath THEN EmptyTables
        ELSE IF ~files[g].gen.parses \/ ~files[c].cons.parses THEN EmptyTables
        ELSE [gen |-> LoadGen(files[g].gen.rows), cons |-> LoadCons(files[c].cons.rows)]

\* C28: load_data resolves each of the two files by search-path priority:
\* the copy that is read is the one in the earliest candidate directory
\* that holds a file of that name, wherever the other file is found.
C28_EarliestDirectory == Loaded => ret = ByPriority

----------------------------------------------------------------------------
(* get_energy_sources and calculate_source_totals: the source names taken  *)
(* from the generation table's column names, and the column names made     *)
(* from the selected source names.  Here a row of the generation table     *)
(* maps every column name, a sequence of characters, to its cell.          *)

\* "Start date"
StartDateHeader ==
    <<"S", "t", "a", "r", "t", " ", "d", "a", "t", "e">>

\* 'Wind [MWh] Original resolutions': a column of the unit with another suffix
WindOriginalHeader ==
    <<"W", "i", "n", "d", " ", "[", "M", "W", "h", "]", " ", "O", "r",
      "i", "g", "i", "n", "a", "l", " ", "r", "e", "s", "o", "l", "u",
      "t", "i", "o", "n", "s">>

\* 'Hydro [MWh]': a column of the unit without a suffix
HydroBareHeader ==
    <<"H", "y", "d", "r", "o", " ", "[", "M", "W", "h", "]">>

\* str.replace(old, ""): every occurrence of old, from the left, is removed.
RECURSIVE Remove(_, _)
Remove(s, old) ==
    IF Len(s) < Len(old) THEN s
    ELSE IF SubSeq(s, 1, Len(old)) = old
    THEN Remove(SubSeq(s, Len(old) + 1, Len(s)), old)
    ELSE <<Head(s)>> \o Remove(Tail(s), old)

\* energy_generation.columns
ColumnsOf(df) == DOMAIN df[1]

\* [col.replace(" [MWh] Calculated resolutions", "")
\*      for col in energy_generation.columns if "[MWh]" in col]
get_energy_sources(energy_gen) ==
    {Remove(col, ColumnSuffix) :
        col \in {c \in ColumnsOf(energy_gen) : Contains(c, UnitMarker)}}

\* f"{source} [MWh] Calculated resolutions"
Expand(source) == source \o ColumnSuffix

\* filtered_energy_gen[gen_columns] raises KeyError for a name that is no
\* column; nothing in calculate_source_totals catches it.
SourceTotalsRaises(energy_gen, selected_sources) ==
    \E source \in selected_sources : Expand(source) \notin ColumnsOf(energy_gen)

\* source_totals: the sum of every selected source's column.
calculate_source_totals(energy_gen, selected_sources) ==
    [source \in selected_sources |->
        SumSeq([i \in 1..Len(energy_gen) |-> energy_gen[i][Expand(source)]])]

----------------------------------------------------------------------------
(* The sources specification: the sidebar discovers the sources of a       *)
(* generation table and the sources tab totals a selection of them.        *)

MaxRowsSources == 2

Headers ==
    {StartDateHeader, ColumnName("Solar"), ColumnName("Coal"), WindOriginalHeader,
     HydroBareHeader}

\* Tables of 1..MaxRowsSources rows over every non-empty set of columns;
\* every cell of row i is i.
HeaderTables ==
    {[i \in 1..n |-> [c \in columns |-> Some(i)]] :
        n \in 1..MaxRowsSources, columns \in (SUBSET Headers) \ {{}}}

InitSources ==
    /\ energy_generation \in HeaderTables
    /\ energy_consumption = NoTable
    /\ trends_data = NoTable
    /\ call = NoCall
    /\ ret = [gen |-> NoTable, cons |-> NoTable]
    /\ EnvIdle

\* available_sources = get_energy_sources(energy_generation)
GetEnergySources ==
    /\ call.op = "none"
    /\ ret' = [sources |-> get_energy_sources(energy_generation)]
    /\ call' = [op |-> "get_energy_sources"]
    /\ UNCHANGED <<energy_generation, energy_consumption, trends_data>>
    /\ UNCHANGED env

\* source_data = calculate_source_totals(filtered_energy_gen, selected_sources)
\* with sources selected among the discovered ones.
CalculateSourceTotals(selected_sources) ==
    /\ call.op = "get_energy_sources"
    /\ selected_sources \subseteq ret.sources
    /\ IF SourceTotalsRaises(energy_generation, selected_sources)
       THEN /\ call' = [op |-> "calculate_source_totals", raised |-> TRUE]
            /\ ret' = ret
       ELSE /\ call' = [op |-> "calculate_source_totals", raised |-> FALSE]
            /\ ret' = [sources |-> ret.sources,
                       totals |-> calculate_source_totals(energy_generation,
                                                          selected_sources)]
    /\ UNCHANGED <<energy_generation, energy_consumption, trends_data>>
    /\ UNCHANGED env

NextSources ==
    \/ GetEnergySources
    \/ \E ss \in SUBSET {Remove(c, ColumnSuffix) : c \in Headers} :
           CalculateSourceTotals(ss)

SpecSources == InitSources /\ [][NextSources]_vars

\* C29: source names round-trip through the column-name convention: for
\* every generation table, every name returned by get_energy_sources,
\* expanded to "<name> [MWh] Calculated resolutions", is the name of a
\* column of that table, so totalling any selection of discovered sources
\* does not fail on a missing column.
C29_SourceNamesRoundTrip ==
    /\ call.op \in {"get_energy_sources", "calculate_source_totals"} =>
           \A name \in ret.sources : Expand(name) \in ColumnsOf(energy_generation)
    /\ call.op = "calculate_source_totals" => ~call.raised

\* ---------------------------------------------------------------------------
\* Pagination of the predictions table (pages/Prediction.py, paginate_df)
\* ---------------------------------------------------------------------------

\* The page size main passes: paginate_df(display_df, 10).
page_size == 10

\* len(df) // page_size, without the extra page for the remainder.
total_pages_floor(df, size) == Len(df) \div size

\* total_pages = len(df) // page_size + (1 if len(df) % page_size > 0 else 0)
total_pages_of(df, size) ==
    (Len(df) \div size) + (IF Len(df) % size > 0 THEN 1 ELSE 0)

\* df.iloc[start_idx:end_idx]: the rows at the 0-based positions
\* start_idx .. end_idx - 1, none when start_idx >= end_idx.
iloc(df, start_idx, end_idx) == SubSeq(df, start_idx + 1, end_idx)

\* The values st.slider("Page", 1, max(1, total_pages), 1) can return.
PageNumbers(df, size) == 1..MaxOf({1, total_pages_of(df, size)})

\* paginate_df(df, page_size) when the slider stands at page_number.
paginate_df(df, size, page_number) ==
    LET total_pages == total_pages_of(df, size)
        start_idx == (page_number - 1) * size
        end_idx == IF start_idx + size < Len(df) THEN start_idx + size ELSE Len(df)
    IN  [paginated_df |-> iloc(df, start_idx, end_idx),
         page |-> page_number,
         total_pages |-> total_pages]

MaxRowsPaginate == 35

\* display_df of 0..MaxRowsPaginate rows; row i carries the label i.
DisplayTables == {[i \in 1..n |-> i] : n \in 0..MaxRowsPaginate}

InitPaginate ==
    /\ energy_generation = NoTable
    /\ energy_consumption = NoTable
    /\ trends_data = NoTable
    /\ call = NoCall
    /\ ret \in {[display_df |-> df] : df \in DisplayTables}
    /\ EnvIdle

\* paginated_df, page, total_pages = paginate_df(display_df, 10), then
\* st.dataframe(paginated_df) and st.caption: one run of the page with the
\* slider at page_number.
Paginate(page_number) ==
    /\ page_number \in PageNumbers(ret.display_df, page_size)
    /\ shown' = paginate_df(ret.display_df, page_size, page_number)
    /\ call' = [op |-> "paginate_df"]
    /\ UNCHANGED <<energy_generation, energy_consumption, trends_data, ret,
                   metrics, files, cache, now, session, prediction_cache>>

NextPaginate == \E page_number \in 1..(MaxRowsPaginate + 1) : Paginate(page_number)

SpecPaginate == InitPaginate /\ [][NextPaginate]_vars

\* Smallest number of pages of `size` rows that hold n rows.
Ceil(n, size) == CHOOSE k \in 0..n : k * size >= n /\ (k = 0 \/ (k - 1) * size < n)

\* The labels of the rows of a slice.
RowsOf(slice) == {slice[i] : i \in 1..Len(slice)}

\* C30: paginate_df partitions the table: total_pages = ceil(n / 10); page p
\* of 1..max(1, total_pages) is the rows (p-1)*10 up to min(p*10, n); the
\* pages are pairwise disjoint, every page but the last has exactly 10 rows,
\* and every row is on exactly one page.
C30_PagesPartition ==
    call.op = "paginate_df" =>
        LET df == ret.display_df
            n == Len(df)
            pages == PageNumbers(df, page_size)
            Slice(p) == paginate_df(df, page_size, p).paginated_df
        IN  /\ shown.total_pages = Ceil(n, page_size)
            /\ shown.page \in pages
            /\ shown.paginated_df = Slice(shown.page)
            /\ \A p \in pages :
                   /\ Slice(p) = [k \in 1..(MaxOf({0, (IF p * page_size < n THEN p * page_size ELSE n)
                                                       - (p - 1) * page_size})) |->
                                     df[(p - 1) * page_size + k]]
                   /\ p < shown.total_pages => Len(Slice(p)) = page_size
                   /\ Cardinality(RowsOf(Slice(p))) = Len(Slice(p))
            /\ \A p, q \in pages : p # q => RowsOf(Slice(p)) \cap RowsOf(Slice(q)) = {}
            /\ UNION {RowsOf(Slice(p)) : p \in pages} = RowsOf(df)

\* The last, partial page of a table of 25 rows was shown.
C30_Witness ==
    /\ call.op = "paginate_df"
    /\ Len(ret.display_df) = 25
    /\ shown.page = 3
    /\ shown.total_pages = 3
    /\ shown.paginated_df = <<21, 22, 23, 24, 25>>

\* ---------------------------------------------------------------------------
\* The prediction file (FrontEnd/data_loader.py, load_prediction_data)
\* ---------------------------------------------------------------------------

\* A frame with named columns in order; every row maps each column name to
\* its cell.  pd.DataFrame() has no column and no row.
EmptyFrame == [columns |-> <<>>, rows |-> <<>>]

\* name in df.columns
HasColumn(df, name) == \E k \in DOMAIN df.columns : df.columns[k] = name

\* df[name]
ColumnOf(df, name) == [i \in DOMAIN df.rows |-> df.rows[i][name]]

\* df[name] = values: an existing column is replaced where it stands, a new
\* one is appended as the last column.
SetColumn(df, name, values) ==
    [columns |-> IF HasColumn(df, name) THEN df.columns ELSE Append(df.columns, name),
     rows |-> [i \in DOMAIN df.rows |->
                  [c \in (DOMAIN df.rows[i]) \cup {name} |->
                      IF c = name THEN values[i] ELSE df.rows[i][c]]]]

\* 365_day_predictions.csv with the given header and number of data rows.
PredFile(columns, nrows) ==
    [exists |-> TRUE, parses |-> TRUE, columns |-> columns, nrows |-> nrows]

\* pd.read_csv(pred_file_path) of the file of directory d: the cell of
\* column c in row i is the text the file of that directory holds there.
read_csv(d, file) ==
    [columns |-> file.columns,
     rows |-> [i \in 1..file.nrows |->
                  [c \in {file.columns[k] : k \in DOMAIN file.columns} |->
                      [dir |-> d, column |-> c, row |-> i]]]]

\* pd.to_datetime(column, errors="coerce"), cell by cell: a cell that is a
\* datetime already stays as it is.
to_datetime(values) ==
    [i \in DOMAIN values |->
        IF DOMAIN values[i] \cap {"datetime", "date_range", "day"} # {}
        THEN values[i] ELSE [datetime |-> values[i]]]

\* pd.date_range(start="2020-01-01", periods=n, freq="D"): day i of the axis.
date_range(n) == [i \in 1..n |-> [date_range |-> i]]

\* column.dt.year, column.dt.month, column.dt.strftime('%b')
dt_year_of(values) == [i \in DOMAIN values |-> [year |-> values[i]]]
dt_month_of(values) == [i \in DOMAIN values |-> [month |-> values[i]]]
strftime_b(values) == [i \in DOMAIN values |-> [strftime |-> values[i]]]

\* A column holding the same text in every row.
Repeat(df, text) == [i \in DOMAIN df.rows |-> [literal |-> text]]

\* Lines 130-141: the Date column parsed, or created when the file has none,
\* then Year, Month and MonthName derived from it.
WithDates(energy_pred) ==
    LET dated == IF HasColumn(energy_pred, "Date")
                 THEN SetColumn(energy_pred, "Date",
                                to_datetime(ColumnOf(energy_pred, "Date")))
                 ELSE SetColumn(energy_pred, "Date", date_range(Len(energy_pred.rows)))
        year == SetColumn(dated, "Year", dt_year_of(ColumnOf(dated, "Date")))
        month == SetColumn(year, "Month", dt_month_of(ColumnOf(year, "Date")))
    IN  SetColumn(month, "MonthName", strftime_b(ColumnOf(month, "Date")))

\* Lines 144-154: the forecast column under its standard name; the fallback
\* reads energy_pred.columns[1] of the frame as it is by then.
WithForecast(energy_pred, file_columns) ==
    IF HasColumn(energy_pred, "forecast") THEN energy_pred
    ELSE IF HasColumn(energy_pred, "Residual load")
    THEN SetColumn(energy_pred, "forecast", ColumnOf(energy_pred, "Residual load"))
    ELSE IF HasColumn(energy_pred, "prediction")
    THEN SetColumn(energy_pred, "forecast", ColumnOf(energy_pred, "prediction"))
    ELSE IF Len(energy_pred.columns) >= 2
    THEN SetColumn(energy_pred, "forecast",
                   ColumnOf(energy_pred, energy_pred.columns[2]))
    ELSE energy_pred

\* The first of possible_locations that holds the prediction file, NoPath
\* when none does (lines 114-118).
FindPrediction(fs) ==
    IF \E d \in 1..NumLocations : fs[d].pred.exists
    THEN CHOOSE d \in 1..NumLocations :
             /\ fs[d].pred.exists
             /\ \A e \in 1..(d - 1) : ~fs[e].pred.exists
    ELSE NoPath

\* The body of load_prediction_data: a missing file or a read that fails is
\* caught and gives pd.DataFrame().
load_prediction_data(fs) ==
    LET pred_file_path == FindPrediction(fs)
    IN  IF pred_file_path = NoPath THEN EmptyFrame
        ELSE IF ~fs[pred_file_path].pred.parses THEN EmptyFrame
        ELSE LET file == fs[pred_file_path].pred
                 energy_pred == WithDates(read_csv(pred_file_path, file))
                 standard == WithForecast(energy_pred, file.columns)
             IN  SetColumn(standard, "model", Repeat(standard, "CSV Model"))

\* The entries of st.cache_data for one function and its arguments that are
\* still served at the present time.
CacheHits(key) == {e \in prediction_cache : e.key = key /\ Fresh(e.stored, now)}

\* The cache after the body ran for `key` and returned `value`.
CacheStore(key, value) ==
    {e \in prediction_cache : e.key # key}
        \cup {[key |-> key, value |-> value, stored |-> now]}

\* The value a call decorated with st.cache_data(ttl=3600) returns.
Cached(key, computed) ==
    IF CacheHits(key) # {} THEN (CHOOSE e \in CacheHits(key) : TRUE).value
    ELSE computed

\* The cache after that call.
CacheAfter(key, computed) ==
    IF CacheHits(key) # {} THEN prediction_cache ELSE CacheStore(key, computed)

MaxColumns == 2
MaxRowsPred == 1

PredColumnNames == {"Date", "forecast", "Residual load", "prediction", "value"}

\* Headers of 1..MaxColumns distinct column names.
PredLayouts ==
    UNION {{h \in [1..n -> PredColumnNames] : \A j, k \in 1..n : j # k => h[j] # h[k]} :
              n \in 1..MaxColumns}

\* What a directory can hold of the prediction file.
PredKinds == {"absent", "unreadable", "csv"}

\* The five directories: each lacks the file, holds one that cannot be read,
\* or holds a copy with the given header and rows.
PredDirectories(kinds, columns, nrows) ==
    [d \in 1..NumLocations |->
        [gen |-> Absent, cons |-> Absent,
         pred |-> IF kinds[d] = "absent" THEN Absent
                  ELSE IF kinds[d] = "unreadable" THEN Unreadable
                  ELSE PredFile(columns, nrows)]]

InitPredLoad ==
    /\ energy_generation = NoTable
    /\ energy_consumption = NoTable
    /\ trends_data = NoTable
    /\ call = NoCall
    /\ ret = <<>>
    /\ metrics = <<>>
    /\ \E kinds \in [1..NumLocations -> PredKinds], columns \in PredLayouts,
          nrows \in 0..MaxRowsPred :
           files = PredDirectories(kinds, columns, nrows)
    /\ cache = <<>>
    /\ now = 0
    /\ session = <<>>
    /\ shown = <<>>
    /\ prediction_cache = {}

\* load_prediction_data(): the cached call.
LoadPredictionData ==
    /\ call.op = "none"
    /\ ret' = Cached(<<"load_prediction_data">>, load_prediction_data(files))
    /\ prediction_cache' = CacheAfter(<<"load_prediction_data">>,
                                      load_prediction_data(files))
    /\ call' = [op |-> "load_prediction_data"]
    /\ UNCHANGED <<energy_generation, energy_consumption, trends_data, metrics,
                   files, cache, now, session, shown>>

NextPredLoad == LoadPredictionData

SpecPredLoad == InitPredLoad /\ [][NextPredLoad]_vars

\* The file load_prediction_data read: the copy of the first directory that
\* holds one.
FileRead == files[FindPrediction(files)].pred

PredictionRead ==
    /\ call.op = "load_prediction_data"
    /\ FindPrediction(files) # NoPath
    /\ FileRead.parses

\* The column of the file the forecast is to be taken from: `forecast`, else
\* `Residual load`, else `prediction`, else the second column; "" when the
\* file has none of them.
ForecastSource(columns) ==
    LET Has(name) == \E k \in DOMAIN columns : columns[k] = name
    IN  IF Has("forecast") THEN "forecast"
        ELSE IF Has("Residual load") THEN "Residual load"
        ELSE IF Has("prediction") THEN "prediction"
        ELSE IF Len(columns) >= 2 THEN columns[2]
        ELSE ""

\* C21: load_prediction_data sets the forecast column from the first source
\* present in the order forecast, Residual load, prediction, second column of
\* the file, for every layout of the file: the forecast column of the result
\* is that column of the result, and a file with none of these sources gets
\* no forecast column.
C21_ForecastPriority ==
    PredictionRead =>
        LET source == ForecastSource(FileRead.columns)
        IN  IF source = "" THEN ~HasColumn(ret, "forecast")
            ELSE /\ HasColumn(ret, "forecast")
                 /\ ColumnOf(ret, "forecast") = ColumnOf(ret, source)

\* ---------------------------------------------------------------------------
\* The prediction service (pages/Prediction.py, fetch_prediction)
\* ---------------------------------------------------------------------------

\* JSON values: a number, null or boolean; a string; a list of numbers; an
\* object with its keys in the order of the document.
JScalar(key) == [type |-> "scalar", key |-> key]
JString == [type |-> "string"]
JList(key, n) == [type |-> "list", items |-> [i \in 1..n |-> [key |-> key, row |-> i]]]
JDict(keys, fields) == [type |-> "dict", keys |-> keys, fields |-> fields]

\* requests.get raised a RequestException: no response.
NoResponse == [raises |-> TRUE, status_code |-> 0, json |-> FALSE, data |-> JString]

\* A response with its status and body; json tells whether the body is a
\* JSON document, data is the value it holds.
Response(status_code, json, data) ==
    [raises |-> FALSE, status_code |-> status_code, json |-> json, data |-> data]

\* key in data for an object
HasKey(data, key) == \E k \in DOMAIN data.keys : data.keys[k] = key

\* data[key] = value: a new key comes last.
SetKey(data, key, value) ==
    JDict(IF HasKey(data, key) THEN data.keys ELSE Append(data.keys, key),
          [k \in (DOMAIN data.fields) \cup {key} |->
              IF k = key THEN value ELSE data.fields[k]])

\* data.pop(key, None)
Pop(data, key) ==
    JDict(SelectSeq(data.keys, LAMBDA k : k # key),
          [k \in (DOMAIN data.fields) \ {key} |-> data.fields[k]])

\* Lines 137-140 on an object: the bounds of confidence_interval moved to
\* lower and upper.  A confidence_interval that is no object or lacks one
\* of the two keys raises (TypeError, KeyError).
MoveBounds(data) ==
    IF ~HasKey(data, "confidence_interval") THEN Returned(data)
    ELSE LET ci == data.fields["confidence_interval"]
         IN  IF ci.type # "dict" THEN Raised
             ELSE IF ~HasKey(ci, "lower Residual load") THEN Raised
             ELSE IF ~HasKey(ci, "upper Residual load") THEN Raised
             ELSE Returned(Pop(SetKey(SetKey(data, "lower",
                                             ci.fields["lower Residual load"]),
                                      "upper", ci.fields["upper Residual load"]),
                               "confidence_interval"))

\* The lengths of the lists among the values of an object.
ListLengths(data) ==
    {Len(data.fields[k].items) : k \in {j \in DOMAIN data.fields : data.fields[j].type = "list"}}

\* pd.DataFrame(data) for an object of lists and scalars: lists of one
\* length give the rows and scalars are repeated; lists of different
\* lengths, scalars alone, or an object as a value raise ValueError.
DataFrameOfDict(data) ==
    LET lengths == ListLengths(data)
        n == IF lengths = {} THEN 0 ELSE CHOOSE l \in lengths : TRUE
    IN  IF \E k \in DOMAIN data.fields : data.fields[k].type \in {"dict", "string"}
        THEN Raised
        ELSE IF Cardinality(lengths) > 1 THEN Raised
        ELSE IF lengths = {} /\ DOMAIN data.fields # {} THEN Raised
        ELSE Returned([columns |-> data.keys,
                       rows |-> [i \in 1..n |->
                                    [c \in DOMAIN data.fields |->
                                        IF data.fields[c].type = "list"
                                        THEN data.fields[c].items[i]
                                        ELSE [key |-> data.fields[c].key, row |-> 0]]]])

\* pd.DataFrame(data) for a list of numbers: one column, named 0.
DataFrameOfList(data) ==
    [columns |-> <<"0">>,
     rows |-> [i \in DOMAIN data.items |-> [c \in {"0"} |-> data.items[i]]]]

\* Lines 136-145 without their except clause: the frame, or an exception.
\* The membership test raises TypeError on a number, and the DataFrame
\* constructor ValueError on a string.
ProcessResponseUncaught(response) ==
    IF ~response.json THEN Raised
    ELSE LET data == response.data
         IN  IF data.type \in {"scalar", "string"} THEN Raised
             ELSE LET made == IF data.type = "list"
                              THEN Returned(DataFrameOfList(data))
                              ELSE IF MoveBounds(data).raised THEN Raised
                              ELSE DataFrameOfDict(MoveBounds(data).value)
                  IN  IF made.raised THEN Raised
                      ELSE LET df == made.value
                               dated == IF HasColumn(df, "Date") THEN df
                                        ELSE SetColumn(df, "Date", date_range(Len(df.rows)))
                           IN  Returned(Some(SetColumn(dated, "model",
                                                       Repeat(dated, "API Model"))))

\* Lines 135-148: every exception of the processing is caught and gives None.
ProcessResponse(response) ==
    IF ProcessResponseUncaught(response).raised THEN Returned(None)
    ELSE ProcessResponseUncaught(response)

\* The body of fetch_prediction: None for a request that fails and for a
\* status other than 200.
fetch_prediction(response) ==
    IF response.raises THEN Returned(None)
    ELSE IF response.status_code = 200 THEN ProcessResponse(response)
    ELSE Returned(None)

MaxItems == 2

\* A value of a key of the document: none, a number, or a list of numbers.
PlainValues(key) ==
    {<<>>, <<JScalar(key)>>} \cup {<<JList(key, n)>> : n \in 0..MaxItems}

\* The object with the given optional values, in the order given.
DictOf(keys, values) ==
    LET present == SelectSeq(keys, LAMBDA k : values[k] # <<>>)
    IN  JDict(present, [k \in {present[j] : j \in DOMAIN present} |-> values[k][1]])

\* The values of confidence_interval: none, a number, or an object with each
\* of its two bounds absent, a number or a list.
IntervalValues ==
    {<<>>, <<JScalar("confidence_interval")>>}
        \cup {<<DictOf(<<"lower Residual load", "upper Residual load">>,
                       [k \in {"lower Residual load", "upper Residual load"} |->
                           IF k = "lower Residual load" THEN lo ELSE up])>> :
                 lo \in PlainValues("lower Residual load"),
                 up \in PlainValues("upper Residual load")}

\* The documents of the service.
Documents ==
    {JScalar("body"), JString} \cup {JList("body", n) : n \in 0..MaxItems}
        \cup {DictOf(<<"Residual load", "Date", "confidence_interval">>,
                     [k \in {"Residual load", "Date", "confidence_interval"} |->
                         IF k = "Residual load" THEN load
                         ELSE IF k = "Date" THEN date ELSE ci]) :
                 load \in PlainValues("Residual load"),
                 date \in PlainValues("Date"),
                 ci \in IntervalValues}

StatusCodes == {200, 404, 500}

Responses ==
    {NoResponse} \cup {Response(s, FALSE, JString) : s \in StatusCodes}
        \cup {Response(s, TRUE, data) : s \in StatusCodes, data \in Documents}

\* st.slider("Prediction Horizon (Days)", min_value=7, max_value=365, step=7)
slider_min_value == 7
slider_max_value == 365
slider_step == 7

MaxSliderMoves == 1

\* The values of the horizon slider up to MaxSliderMoves steps from the
\* smallest.
Steps ==
    {d \in {slider_min_value + slider_step * k : k \in 0..MaxSliderMoves} :
        d <= slider_max_value}

InitFetch ==
    /\ energy_generation = NoTable
    /\ energy_consumption = NoTable
    /\ trends_data = NoTable
    /\ call = NoCall
    /\ ret = <<>>
    /\ EnvIdle

\* fetch_prediction(steps), the cached call, when the service answers with
\* `response`.  A call that raises stores nothing.
FetchPrediction(steps, response) ==
    LET outcome == fetch_prediction(response)
        hit == CacheHits(<<"fetch_prediction", steps>>) # {}
    IN  /\ call.op = "none"
        /\ call' = [op |-> "fetch_prediction", steps |-> steps,
                    response |-> response, raised |-> ~hit /\ outcome.raised]
        /\ ret' = IF ~hit /\ outcome.raised THEN ret
                  ELSE Cached(<<"fetch_prediction", steps>>, outcome.value)
        /\ prediction_cache' =
               IF ~hit /\ outcome.raised THEN prediction_cache
               ELSE CacheAfter(<<"fetch_prediction", steps>>, outcome.value)
        /\ UNCHANGED <<energy_generation, energy_consumption, trends_data, metrics,
                       files, cache, now, session, shown>>

NextFetch == \E steps \in Steps, response \in Responses : FetchPrediction(steps, response)

SpecFetch == InitFetch /\ [][NextFetch]_vars

Fetched == call.op = "fetch_prediction"

\* The confidence_interval of the document answered, when it has one.
IntervalOf(response) == response.data.fields["confidence_interval"]

HasInterval(response) ==
    /\ response.json
    /\ response.data.type = "dict"
    /\ HasKey(response.data, "confidence_interval")

\* C22: fetch_prediction never raises: a failed request, a status other than
\* 200 and a body that is no JSON document or no object or list give None;
\* a table is returned only for status 200, has no confidence_interval
\* column, and when the document had a confidence_interval its lower and
\* upper columns are the "lower Residual load" and "upper Residual load"
\* values of it.
C22_FetchNeverRaises ==
    Fetched =>
        LET response == call.response
        IN  /\ ~call.raised
            /\ (response.raises \/ response.status_code # 200 \/ ~response.json
                  \/ response.data.type \in {"scalar", "string"}) => ret = None
            /\ ret # None =>
                  /\ ~HasColumn(ret[1], "confidence_interval")
                  /\ HasColumn(ret[1], "model")
                  /\ HasColumn(ret[1], "Date")
                  /\ HasInterval(response) =>
                        /\ HasColumn(ret[1], "lower")
                        /\ HasColumn(ret[1], "upper")
                        /\ \A i \in DOMAIN ret[1].rows :
                              /\ ret[1].rows[i].lower.key = "lower Residual load"
                              /\ ret[1].rows[i].upper.key = "upper Residual load"
                              /\ ret[1].rows[i].lower.row \in {0, i}
                              /\ ret[1].rows[i].upper.row \in {0, i}

\* A document with a confidence_interval of two lists became a table of two
\* rows with lower and upper columns.
C22_Witness ==
    /\ Fetched
    /\ HasInterval(call.response)
    /\ ret # None
    /\ Len(ret[1].rows) = 2
    /\ ret[1].columns = <<"Residual load", "lower", "upper", "Date", "model">>
    /\ ret[1].rows[2].lower = [key |-> "lower Residual load", row |-> 2]

\* ---------------------------------------------------------------------------
\* The Prediction page (pages/Prediction.py, main)
\* ---------------------------------------------------------------------------

\* df.empty: no column or no row.
IsEmptyFrame(df) == Len(df.columns) = 0 \/ Len(df.rows) = 0

\* df.head(n)
head(df, n) ==
    [columns |-> df.columns,
     rows |-> SubSeq(df.rows, 1, IF n < Len(df.rows) THEN n ELSE Len(df.rows))]

\* x * (m / 10) for a fraction x.
Tenths(x, m) == [num |-> x.num * m, den |-> x.den * 10]

\* combined_data: the forecast as a frame with lower = 0.9 and upper = 1.1
\* times the forecast (lines 277-283).
combined_data(forecast_data) ==
    [columns |-> <<"Date", "forecast", "lower", "upper", "model">>,
     rows |-> [i \in DOMAIN forecast_data |->
                  [Date |-> [day |-> forecast_data[i].Date],
                   forecast |-> forecast_data[i].value,
                   lower |-> Tenths(forecast_data[i].value, 9),
                   upper |-> Tenths(forecast_data[i].value, 11),
                   model |-> [literal |-> "Fallback Model"]]]]

\* Lines 266-284: the CSV frame cut to the horizon, or, when it is empty,
\* the local forecast of a non-empty consumption table with enough history;
\* without one the empty frame stays.
CsvOrFallback(csv, cons, number_of_days) ==
    IF ~IsEmptyFrame(csv) THEN head(csv, number_of_days)
    ELSE IF cons = NoTable THEN csv
    ELSE LET forecast == forecast_energy_trends(cons, number_of_days)
         IN  IF forecast.historical # None /\ forecast.forecast # None
             THEN combined_data(forecast.forecast[1])
             ELSE csv

\* Lines 249-252: the three session values, None when the session is new.
Initialised(state) ==
    IF state = <<>>
    THEN [prediction_data |-> None, last_model |-> None, last_days |-> None]
    ELSE state

\* A reload decision that looks at the model only.
NeedsReloadModelOnly(state, prediction_model, number_of_days) ==
    \/ state.last_model # Some(prediction_model)
    \/ state.prediction_data = None

\* Lines 255-258: model_changed or days_changed or no stored data.
NeedsReload(state, prediction_model, number_of_days) ==
    \/ state.last_model # Some(prediction_model)
    \/ state.last_days # Some(number_of_days)
    \/ state.prediction_data = None

\* What a run renders.
Rendered(warning, error, chart, cards, table, raised) ==
    [warning |-> warning, error |-> error, chart |-> chart, metrics |-> cards,
     table |-> table, raised |-> raised]

\* The first of "Residual load", "forecast", "prediction" among the columns,
\* "" for none (lines 304-308).
forecast_col_of(data) ==
    IF HasColumn(data, "Residual load") THEN "Residual load"
    ELSE IF HasColumn(data, "forecast") THEN "forecast"
    ELSE IF HasColumn(data, "prediction") THEN "prediction"
    ELSE ""

\* data[display_cols].copy() with the dates as text (lines 524-533).
display_df(data) ==
    LET display_cols == {"Date", forecast_col_of(data)}
                            \cup ({"lower", "upper"} \cap {data.columns[k] : k \in DOMAIN data.columns})
    IN  [i \in DOMAIN data.rows |->
            [c \in display_cols |->
                IF c = "Date" THEN [text |-> data.rows[i][c]] ELSE data.rows[i][c]]]

\* data["Date"] = pd.to_datetime(data["Date"]), done on the frame the
\* session holds (lines 293-297).
DatesParsed(data) ==
    IF HasColumn(data, "Date")
    THEN SetColumn(data, "Date", to_datetime(ColumnOf(data, "Date")))
    ELSE data

\* The page numbers the table slider can stand at in a run for the stored
\* data: 1 when the run does not reach the table.
TablePages(stored) ==
    IF stored = None THEN {1}
    ELSE IF ~HasColumn(stored[1], "Date") THEN {1}
    ELSE IF forecast_col_of(stored[1]) = "" THEN {1}
    ELSE IF Len(stored[1].rows) = 0 THEN {1}
    ELSE PageNumbers(display_df(stored[1]), page_size)

\* Lines 292-569: the warning when the stored data is None; nothing for a
\* frame without Date; the error when no forecast column is found; else the
\* chart, then the metrics, where idxmax raises ValueError on a frame
\* without rows, then the page of the table.
Display(stored, page_number) ==
    IF stored = None THEN Rendered(TRUE, FALSE, FALSE, FALSE, <<>>, FALSE)
    ELSE LET data == DatesParsed(stored[1])
         IN  IF ~HasColumn(data, "Date")
             THEN Rendered(FALSE, FALSE, FALSE, FALSE, <<>>, FALSE)
             ELSE IF forecast_col_of(data) = ""
             THEN Rendered(FALSE, TRUE, FALSE, FALSE, <<>>, FALSE)
             ELSE IF Len(data.rows) = 0
             THEN Rendered(FALSE, FALSE, TRUE, FALSE, <<>>, TRUE)
             ELSE Rendered(FALSE, FALSE, TRUE, TRUE,
                           <<paginate_df(display_df(data), page_size, page_number)>>,
                           FALSE)

\* The stored data after the display has parsed its dates in place.
AfterDisplay(stored) == IF stored = None THEN None ELSE Some(DatesParsed(stored[1]))

\* The prediction file and the data files of the page, all in the first
\* directory.
PredictionFiles(gen, cons, pred) ==
    [d \in 1..NumLocations |->
        IF d = 1 THEN [gen |-> gen, cons |-> cons, pred |-> pred]
        ELSE [gen |-> Absent, cons |-> Absent, pred |-> Absent]]

\* Consumption files: none, eleven months of history, twelve months.
PredictionConsFiles ==
    {Absent} \cup {CsvFile(HistoryRaws(<<2022, 1>>, n, 0, FALSE, FALSE)) : n \in {11, 12}}

\* Prediction files: none, one that cannot be read, and files of 0..MaxRowsPred
\* rows and of more rows than the shortest horizon.
PredictionPredFiles ==
    {Absent, Unreadable}
        \cup {PredFile(columns, nrows) :
                 columns \in {<<"Date", "forecast">>, <<"value">>},
                 nrows \in (0..MaxRowsPred) \cup {slider_min_value + 1}}

\* The answers of the service: none, a document of lists and a
\* confidence_interval, and an empty object.
PageResponses ==
    {NoResponse,
     Response(200, TRUE,
              DictOf(<<"Residual load", "Date", "confidence_interval">>,
                     [k \in {"Residual load", "Date", "confidence_interval"} |->
                         IF k = "confidence_interval"
                         THEN <<DictOf(<<"lower Residual load", "upper Residual load">>,
                                       [j \in {"lower Residual load", "upper Residual load"} |->
                                           <<JList(j, MaxItems)>>])>>
                         ELSE <<JList(k, MaxItems)>>])),
     Response(200, TRUE, JDict(<<>>, <<>>))}

\* The options of the model selectbox.
PredictionModels == {"API Model", "CSV Model"}

InitPrediction ==
    /\ energy_generation = NoTable
    /\ energy_consumption = NoTable
    /\ trends_data = NoTable
    /\ call = NoCall
    /\ ret = <<>>
    /\ metrics = <<>>
    /\ \E gen \in {Absent, GenFileOf(1)}, cons \in PredictionConsFiles,
          pred \in PredictionPredFiles :
           files = PredictionFiles(gen, cons, pred)
    /\ cache = <<>>
    /\ now = 0
    /\ session = <<>>
    /\ shown = <<>>
    /\ prediction_cache = {}

\* The stored prediction after lines 258-289 for the session values `state`:
\* the service's answer or the CSV frame with its fallback when a reload is
\* due, the stored value otherwise.
Reloaded(state, prediction_model, number_of_days, cons, response) ==
    IF ~NeedsReload(state, prediction_model, number_of_days)
    THEN state.prediction_data
    ELSE IF prediction_model = "API Model"
    THEN Cached(<<"fetch_prediction", number_of_days>>, fetch_prediction(response).value)
    ELSE Some(CsvOrFallback(Cached(<<"load_prediction_data">>, load_prediction_data(files)),
                            cons, number_of_days))

\* The answers the service can give in a run: it is asked only when the API
\* model is reloaded and no fresh entry answers for it.
Answers(state, prediction_model, number_of_days) ==
    IF /\ NeedsReload(state, prediction_model, number_of_days)
       /\ prediction_model = "API Model"
       /\ CacheHits(<<"fetch_prediction", number_of_days>>) = {}
    THEN PageResponses
    ELSE {NoResponse}

\* One run of main with the widgets at prediction_model and number_of_days:
\* load_data, the session values, the reload with the service answering
\* `response`, the session update, and the display with the table slider
\* at page_number.
Rerun(prediction_model, number_of_days) ==
    LET hit == cache # <<>> /\ Fresh(cache[1].stored, now)
        state == Initialised(session)
        reload == NeedsReload(state, prediction_model, number_of_days)
    IN  /\ energy_consumption' = IF hit THEN cache[1].value.cons ELSE load_data(files).cons
        /\ energy_generation' = IF hit THEN cache[1].value.gen ELSE load_data(files).gen
        /\ cache' = IF hit THEN cache
                    ELSE <<[value |-> [gen |-> energy_generation',
                                       cons |-> energy_consumption'],
                            stored |-> now]>>
        /\ \E response \in Answers(state, prediction_model, number_of_days) :
               /\ ret' = Reloaded(state, prediction_model, number_of_days,
                                  energy_consumption', response)
               /\ prediction_cache' =
                      IF ~reload THEN prediction_cache
                      ELSE IF prediction_model = "API Model"
                      THEN CacheAfter(<<"fetch_prediction", number_of_days>>,
                                      fetch_prediction(response).value)
                      ELSE CacheAfter(<<"load_prediction_data">>,
                                      load_prediction_data(files))
        /\ session' = [prediction_data |-> AfterDisplay(ret'),
                       last_model |-> IF reload THEN Some(prediction_model)
                                      ELSE state.last_model,
                       last_days |-> IF reload THEN Some(number_of_days)
                                     ELSE state.last_days]
        /\ \E page_number \in TablePages(ret') : shown' = Display(ret', page_number)
        /\ call' = [op |-> "main", prediction_model |-> prediction_model,
                    number_of_days |-> number_of_days, reloaded |-> reload]
        /\ UNCHANGED <<trends_data, metrics, files, now>>

NextPrediction ==
    \E prediction_model \in PredictionModels, number_of_days \in Steps :
        Rerun(prediction_model, number_of_days)

SpecPrediction == InitPrediction /\ [][NextPrediction]_vars

\* The reload condition of the claim, on the session before the run.
ReloadDue ==
    \/ session = <<>>
    \/ session.last_model # Some(call'.prediction_model)
    \/ session.last_days # Some(call'.number_of_days)
    \/ session.prediction_data = None

\* C25: on the Prediction page, after every run last_model and last_days
\* equal the current selection; the data is reloaded exactly when the model
\* changed, the horizon changed or the stored prediction_data is None; a
\* rerun with unchanged selections and stored data leaves the three session
\* values unchanged.
C25_SessionFollowsSelection ==
    [][call'.op = "main" =>
          /\ session'.last_model = Some(call'.prediction_model)
          /\ session'.last_days = Some(call'.number_of_days)
          /\ call'.reloaded <=> ReloadDue
          /\ ~ReloadDue => session' = session]_vars

\* A run after a change of the horizon alone, with data stored.
C25_Witness ==
    /\ call.op = "main"
    /\ call.reloaded
    /\ call.prediction_model = "CSV Model"
    /\ call.number_of_days = 14
    /\ session.prediction_data # None
    /\ Len(session.prediction_data[1].rows) = 8
    /\ prediction_cache # {}
    /\ shown.metrics

\* No prediction values were obtained: the service gave None, or the CSV
\* load gave an empty table and the fallback produced nothing.
NoPredictionValues ==
    /\ call.op = "main"
    /\ \/ session.last_model = Some("API Model") /\ session.prediction_data = None
       \/ /\ session.last_model = Some("CSV Model")
          /\ session.prediction_data # None
          /\ IsEmptyFrame(session.prediction_data[1])

\* C26: whenever no prediction values could be obtained, the page shows the
\* 'No prediction data available' warning and renders no chart, metrics or
\* table.
C26_WarningWithoutData ==
    NoPredictionValues =>
        /\ shown.warning
        /\ ~shown.chart
        /\ ~shown.metrics
        /\ shown.table = <<>>

====
